---- MODULE Spec2Model ----
(***************************************************************************)
(* Verification model of the interactive document layout engine            *)
(* (modules/pdf_interactive.py and the helpers that share its algorithms). *)
(*                                                                         *)
(* Python strings that the code transforms (strip, lower) are sequences of *)
(* one-character strings; names that are only used as dictionary keys are  *)
(* plain strings.  Lengths are whole points; the image fitting arithmetic  *)
(* is done on exact fractions <<numerator, denominator>>.                  *)
(***************************************************************************)
EXTENDS Integers, Sequences, FiniteSets, TLC

VARIABLES
    bIn, bOut,          \* boolean coercion: the input value, the three results
    fIn, fOut,          \* image fitting: the input sizes, the three results
    layout, data,       \* build_interactive_pdf: the LayoutDocument, the ValueMap
    run,                \* build_interactive_pdf: the two renders (flatten, interactive)
    auto,               \* build_interactive_pdf without a layout: the auto-layout render
    form, schema,       \* build_interactive_pdf: the form's layout file, the Schema
    srun,               \* the two auto-layout renders of the Schema (flatten, interactive)
    sub,                \* app.py: one submit of the form
    sess,               \* signature.py: the session state of the signature UI
    flow                \* form_to_pdf.py: one call of schema_to_interactive_pdf

vars == <<bIn, bOut, fIn, fOut, layout, data, run, auto, form, schema, srun, sub, sess, flow>>

(***************************************************************************)
(* Bounds of the model                                                     *)
(***************************************************************************)
MaxPad    == 1      \* whitespace characters on each side of a coerced string
MaxSrc    == 5      \* source image width / height
MaxBox    == 5      \* target box width / height
MaxFields == 2      \* fields of a layout document (field-kind specification)
MaxPaged  == 3      \* fields of a layout document (paging specification)
MaxPage   == 3      \* highest declared page number
MaxBg     == 2      \* entries of the background list
MaxRows   == 12     \* rows (section titles and fields) of a schema

(***************************************************************************)
(* Python values and strings                                               *)
(***************************************************************************)
Min2(a, b) == IF a <= b THEN a ELSE b

UpperChars == <<"A","B","C","D","E","F","G","H","I","J","K","L","M",
                "N","O","P","Q","R","S","T","U","V","W","X","Y","Z">>
LowerChars == <<"a","b","c","d","e","f","g","h","i","j","k","l","m",
                "n","o","p","q","r","s","t","u","v","w","x","y","z">>

\* str.lower() on one character
LowerChar(c) ==
    IF \E i \in 1..26 : UpperChars[i] = c
    THEN LowerChars[CHOOSE i \in 1..26 : UpperChars[i] = c]
    ELSE c

\* str.upper() on one character (used only to build inputs)
UpperChar(c) ==
    IF \E i \in 1..26 : LowerChars[i] = c
    THEN UpperChars[CHOOSE i \in 1..26 : LowerChars[i] = c]
    ELSE c

\* str.lower()
Lower(s) == [i \in 1..Len(s) |-> LowerChar(s[i])]

Whitespace == {" ", "\t", "\n"}

\* str.strip()
Strip(s) ==
    LET keep == {i \in 1..Len(s) : s[i] \notin Whitespace}
    IN  IF keep = {} THEN <<>>
        ELSE LET lo == CHOOSE i \in keep : \A j \in keep : i <= j
                 hi == CHOOSE i \in keep : \A j \in keep : j <= i
             IN  SubSeq(s, lo, hi)

\* A Python value: None, a bool, an int, a str or image bytes.  Image bytes
\* carry what decoding them gives: b = decodable, iw x ih the pixel size,
\* alpha = the source has an alpha channel, aw x ah the bounding box of
\* non-zero alpha (0 x 0 when there is none), ww x wh the bounding box of the
\* pixels that are not white (0 x 0 when there is none).
PyVal(t, b, n, s) == [t |-> t, b |-> b, n |-> n, s |-> s, iw |-> 0, ih |-> 0, aw |-> 0, ah |-> 0,
                      alpha |-> FALSE, ww |-> 0, wh |-> 0]
PyNone     == PyVal("none", FALSE, 0, <<>>)
PyBool(b)  == PyVal("bool", b, 0, <<>>)
PyInt(n)   == PyVal("int", FALSE, n, <<>>)
PyStr(s)   == PyVal("str", FALSE, 0, s)
PyBytes(ok, iw, ih, aw, ah) ==
    [t |-> "bytes", b |-> ok, n |-> 1, s |-> <<>>, iw |-> iw, ih |-> ih, aw |-> aw, ah |-> ah,
     alpha |-> TRUE, ww |-> aw, wh |-> ah]
PyRgbBytes(iw, ih, ww, wh) ==
    [t |-> "bytes", b |-> TRUE, n |-> 1, s |-> <<>>, iw |-> iw, ih |-> ih, aw |-> 0, ah |-> 0,
     alpha |-> FALSE, ww |-> ww, wh |-> wh]
PyNoBytes  == [t |-> "bytes", b |-> FALSE, n |-> 0, s |-> <<>>, iw |-> 0, ih |-> 0, aw |-> 0, ah |-> 0,
               alpha |-> FALSE, ww |-> 0, wh |-> 0]

DigitChars == <<"0","1","2","3","4","5","6","7","8","9">>

\* Python truthiness: bool(v)
Truthy(v) ==
    CASE v.t = "none"  -> FALSE
      [] v.t = "bool"  -> v.b
      [] v.t = "int"   -> v.n # 0
      [] v.t = "str"   -> v.s # <<>>
      [] v.t = "bytes" -> v.n # 0

\* str(v), as a character sequence
StrOf(v) ==
    CASE v.t = "none"  -> <<"N","o","n","e">>
      [] v.t = "bool"  -> IF v.b THEN <<"T","r","u","e">> ELSE <<"F","a","l","s","e">>
      [] v.t = "int"   -> IF v.n < 10 THEN <<DigitChars[v.n + 1]>>
                          ELSE <<DigitChars[(v.n \div 10) + 1], DigitChars[(v.n % 10) + 1]>>
      [] v.t = "str"   -> v.s
      [] v.t = "bytes" -> <<"b","'","'">>

\* x or ""
OrEmpty(v) == IF Truthy(v) THEN v ELSE PyStr(<<>>)

\* The strings the coercion accepts.  "U+2713" stands for the one character
\* CHECK MARK.
TruthyWords == {
    <<"1">>, <<"t","r","u","e">>, <<"y">>, <<"y","e","s">>, <<"j","a">>,
    <<"o","n">>, <<"x">>, <<"U+2713">>, <<"c","h","e","c","k","e","d">> }

\* pdf_interactive._booly
booly_mut(x) == Lower(StrOf(OrEmpty(x))) \in TruthyWords
booly(x) == Lower(Strip(StrOf(OrEmpty(x)))) \in TruthyWords

\* forms/obdachlosigkeit/interactive_builder._booly
booly_builder(x) == Lower(Strip(StrOf(OrEmpty(x)))) \in TruthyWords

\* forms/obdachlosigkeit/builder._bool
bool_static(v) == Lower(Strip(StrOf(OrEmpty(v)))) \in TruthyWords

(***************************************************************************)
(* Exact fractions                                                         *)
(***************************************************************************)
Frac(n, d) == <<n, d>>
FInt(n)    == <<n, 1>>
FMul(a, b) == <<a[1] * b[1], a[2] * b[2]>>
FDiv(a, b) == <<a[1] * b[2], a[2] * b[1]>>      \* b > 0
FGt(a, b)  == a[1] * b[2] > b[1] * a[2]
FLe(a, b)  == a[1] * b[2] <= b[1] * a[2]
FEq(a, b)  == a[1] * b[2] = b[1] * a[2]
FZero(a)   == a[1] = 0

(***************************************************************************)
(* Image fitting: the three copies                                         *)
(***************************************************************************)
S_fit     == <<"f","i","t">>
S_stretch == <<"s","t","r","e","t","c","h">>

\* `w or 1`
Or1(w) == IF w # 0 THEN w ELSE 1

\* pdf_interactive._render_by_layout_json, image branch; mode is already
\* lower-cased by the caller
FitLayout_mut(mode, w_img, h_img, w_box, h_box) ==
    IF mode = S_stretch
    THEN [dw |-> FInt(w_box), dh |-> FInt(h_box), aspect |-> FInt(0)]
    ELSE LET aspect == Frac(h_img, Or1(w_img))
             dh0    == FMul(FInt(w_box), aspect)
         IN  [dw |-> FInt(w_box), dh |-> dh0, aspect |-> aspect]
FitLayout(mode, w_img, h_img, w_box, h_box) ==
    IF mode = S_stretch
    THEN [dw |-> FInt(w_box), dh |-> FInt(h_box), aspect |-> FInt(0)]
    ELSE LET aspect == Frac(h_img, Or1(w_img))
             dh0    == FMul(FInt(w_box), aspect)
         IN  IF FGt(dh0, FInt(h_box))
             THEN [dw |-> FDiv(FInt(h_box), IF FZero(aspect) THEN FInt(1) ELSE aspect),
                   dh |-> FInt(h_box), aspect |-> aspect]
             ELSE [dw |-> FInt(w_box), dh |-> dh0, aspect |-> aspect]

\* forms/obdachlosigkeit/interactive_builder._draw_signature_image
FitSignatureImage(mode, w_img, h_img, w_box, h_box) ==
    IF Lower(mode) = S_stretch
    THEN [dw |-> FInt(w_box), dh |-> FInt(h_box), aspect |-> FInt(0)]
    ELSE LET aspect == Frac(h_img, Or1(w_img))
             dh0    == FMul(FInt(w_box), aspect)
         IN  IF FGt(dh0, FInt(h_box))
             THEN [dw |-> FDiv(FInt(h_box), IF FZero(aspect) THEN FInt(1) ELSE aspect),
                   dh |-> FInt(h_box), aspect |-> aspect]
             ELSE [dw |-> FInt(w_box), dh |-> dh0, aspect |-> aspect]

\* signature_utils.build_signature_block; a zero aspect with out_h > box_h
\* cannot happen (out_h is then 0), so the division is by a positive number
FitSignatureBlock(mode, w, h, box_w, box_h) ==
    IF mode = S_stretch
    THEN [dw |-> FInt(box_w), dh |-> FInt(box_h), aspect |-> FInt(0)]
    ELSE LET aspect == IF w # 0 THEN Frac(h, w) ELSE FInt(1)
             out_h0 == FMul(FInt(box_w), aspect)
         IN  IF FGt(out_h0, FInt(box_h))
             THEN [dw |-> FDiv(FInt(box_h), aspect), dh |-> FInt(box_h), aspect |-> aspect]
             ELSE [dw |-> FInt(box_w), dh |-> out_h0, aspect |-> aspect]

(***************************************************************************)
(* The ValueMap                                                            *)
(***************************************************************************)
EmptyMap == [k \in {} |-> PyNone]

\* what dict.get(key) leaves of the dictionary: the dictionary as it was
\* (setdefault would add the entry)
after_get_mut(d, k) ==
    IF k \in DOMAIN d THEN d
    ELSE [x \in DOMAIN d \cup {k} |-> IF x = k THEN PyStr(<<>>) ELSE d[x]]
after_get(d, k) == d

\* the dictionary after dict.get of each key of a sequence
RECURSIVE AfterGets(_, _)
AfterGets(d, ks) == IF ks = <<>> THEN d ELSE AfterGets(after_get(d, Head(ks)), Tail(ks))

\* data.get(key): None for a missing entry
DataGet(d, k) == IF k \in DOMAIN d THEN d[k] ELSE PyNone

(***************************************************************************)
(* The LayoutDocument                                                      *)
(***************************************************************************)
S_text     == <<"t","e","x","t">>
S_textarea == <<"t","e","x","t","a","r","e","a">>
S_multiline == <<"m","u","l","t","i","l","i","n","e">>
S_checkbox == <<"c","h","e","c","k","b","o","x">>
S_image    == <<"i","m","a","g","e">>
S_label    == <<"l","a","b","e","l">>
S_line     == <<"l","i","n","e">>
S_rect     == <<"r","e","c","t">>

\* One entry of layout["fields"].  `has` is the set of keys the dictionary
\* holds; the value under a key that is not in `has` is never read.
\* Line widths are in tenths of a point.
F0 == [has |-> {}, type |-> <<>>, page |-> 1,
       x |-> 0, y |-> 0, w |-> 0, h |-> 0,
       x1 |-> 0, y1 |-> 0, x2 |-> 0, y2 |-> 0, width |-> 8,
       name |-> "", value_from |-> "", label_i18n |-> "",
       text |-> "", text_i18n |-> "", size |-> 10, bold |-> FALSE,
       checked |-> PyNone, checked_from |-> "",
       default |-> PyStr(<<>>), scale_mode |-> <<>>, trim |-> TRUE]

\* f.get(key, dflt)
FGet(f, k, dflt) == IF k \in f.has THEN f[k] ELSE dflt

\* the translation table of the call
I18N == [k \in {"lbl.title", "sec.person", "lbl.city"} |->
            CASE k = "lbl.title" -> "Titel" [] k = "sec.person" -> "Angaben" [] OTHER -> "Stadt"]

\* i18n.get(key, fallback)
i18n_get_mut(key, fallback) == IF key \in DOMAIN I18N THEN I18N[key] ELSE ""
i18n_get(key, fallback) == IF key \in DOMAIN I18N THEN I18N[key] ELSE fallback

\* _label_from_i18n(i18n, item): i18n.get(item.get("label_i18n", ""), item.get("name", ""))
label_from_i18n(f) == i18n_get(FGet(f, "label_i18n", ""), FGet(f, "name", ""))

\* _text_from_i18n(i18n, item)
text_from_i18n(f) ==
    IF FGet(f, "text_i18n", "") # ""
    THEN i18n_get(f.text_i18n, FGet(f, "text", ""))
    ELSE FGet(f, "text", "")

(***************************************************************************)
(* The canvas of one render                                                *)
(***************************************************************************)
FF_MULTILINE == 4096

Helvetica10 == [name |-> "Helvetica", size |-> 10]
DefaultLineWidth == 10      \* 1.0 pt, the line width a fresh page starts with

\* One drawing call.  page = the page it lands on, fld = index of the field
\* it was made for (0: none), kind = the dispatch kind of that field,
\* live = an acroForm field, ok = FALSE when the call failed inside its
\* try/except and left nothing on the page.
Op0 == [op |-> "", page |-> 0, fld |-> 0, kind |-> "", live |-> FALSE, ok |-> TRUE,
        x |-> 0, y |-> 0, w |-> 0, h |-> 0, dw |-> <<0, 1>>, dh |-> <<0, 1>>,
        val |-> <<>>, txt |-> "", name |-> "", chk |-> FALSE, n |-> 0,
        font |-> Helvetica10, lw |-> DefaultLineWidth]

\* A render before the call of build_interactive_pdf
Run0 == [pc |-> "ready", i |-> 1, current_page |-> 0, shown |-> 0, ops |-> <<>>,
         font |-> [name |-> "Helvetica", size |-> 12], lineWidth |-> DefaultLineWidth,
         saves |-> 0, npages |-> 0, out |-> "none"]

Draw(r, o) ==
    [r EXCEPT !.ops = Append(@, [o EXCEPT !.page = r.current_page,
                                          !.font = r.font, !.lw = r.lineWidth])]

\* _render_by_layout_json._draw_background(page_index); the background files
\* are "ok" (drawImage succeeds) or "bad" (drawImage raises, swallowed)
draw_background(r, page_index) ==
    IF 0 <= page_index /\ page_index < Len(layout.backgrounds)
    THEN Draw(r, [Op0 EXCEPT !.op = "drawImage", !.kind = "background", !.n = page_index,
                             !.ok = (layout.backgrounds[page_index + 1] = "ok")])
    ELSE r

\* c.showPage(): closes the page; the next page starts with the default
\* graphics state
showPage(r) ==
    [r EXCEPT !.shown = @ + 1, !.lineWidth = DefaultLineWidth,
              !.font = [name |-> "Helvetica", size |-> 12]]

\* while page > current_page: showPage; setFont; current_page += 1; background
AdvanceTo_jump(r, page) ==
    IF page # r.current_page
    THEN LET r1 == [showPage(r) EXCEPT !.font = Helvetica10, !.current_page = page]
         IN  draw_background(r1, page - 1)
    ELSE r
RECURSIVE AdvanceTo_mut(_, _)
AdvanceTo_mut(r, page) ==
    IF page > r.current_page
    THEN LET r1 == [showPage(r) EXCEPT !.font = Helvetica10, !.current_page = @ + 1]
         IN  AdvanceTo_mut(IF r1.current_page = page THEN draw_background(r1, r1.current_page - 1)
                           ELSE r1, page)
    ELSE r
RECURSIVE AdvanceTo(_, _)
AdvanceTo(r, page) ==
    IF page > r.current_page
    THEN LET r1 == [showPage(r) EXCEPT !.font = Helvetica10, !.current_page = @ + 1]
         IN  AdvanceTo(draw_background(r1, r1.current_page - 1), page)
    ELSE r

\* kind = (f.get("type") or "text").lower()
KindOf(f) == Lower(IF FGet(f, "type", <<>>) # <<>> THEN f.type ELSE S_text)

\* an exception leaving _render_by_layout_json: build_interactive_pdf has no
\* handler, so neither c.save() nor the return is executed
Raise_mut(r) == [r EXCEPT !.pc = "returned", !.saves = @ + 1, !.out = "bytes",
                          !.npages = r.shown + 1]
Raise(r) == [r EXCEPT !.pc = "raised"]

\* x, y, w, h = float(f["x"]), float(f["y"]), float(f["w"]), float(f["h"])
BoxKeys == {"x", "y", "w", "h"}
HasBox_mut(f) == TRUE
HasBox(f) == BoxKeys \subseteq f.has

\* value_key = f.get("value_from") or f.get("name")
ValueKey(f) == IF FGet(f, "value_from", "") # "" THEN f.value_from ELSE FGet(f, "name", "")

\* the checkbox state: f.get("checked"), overridden by checked_from, looked
\* up under value_from / name when there is neither
ResolveChecked_mut(f) ==
    LET checked == FGet(f, "checked", PyNone)
    IN  IF checked # PyNone THEN Truthy(checked)
        ELSE IF "checked_from" \in f.has THEN booly(DataGet(data, f.checked_from))
        ELSE booly(DataGet(data, ValueKey(f)))
ResolveChecked(f) ==
    LET checked == FGet(f, "checked", PyNone)
    IN  IF "checked_from" \in f.has THEN booly(DataGet(data, f.checked_from))
        ELSE IF checked = PyNone THEN booly(DataGet(data, ValueKey(f)))
        ELSE Truthy(checked)

\* str(data.get(value_key, default) or "")
BoundString_mut(f) ==
    LET k == FGet(f, "name", "")
        v == IF k \in DOMAIN data THEN data[k] ELSE FGet(f, "default", PyStr(<<>>))
    IN  StrOf(OrEmpty(v))
BoundString(f) ==
    LET k == ValueKey(f)
        v == IF k \in DOMAIN data THEN data[k] ELSE FGet(f, "default", PyStr(<<>>))
    IN  StrOf(OrEmpty(v))

\* val.replace("\n", "<br/>")
ReplaceNewlines(s) == [j \in 1..Len(s) |-> IF s[j] = "\n" THEN "<br/>" ELSE s[j]]

\* PILImage.open(BytesIO(raw)): the image, in the mode of the source
PilOpen(raw) ==
    [mode |-> IF raw.alpha THEN "RGBA" ELSE "RGB", w |-> raw.iw, h |-> raw.ih,
     aw |-> raw.aw, ah |-> raw.ah, ww |-> raw.ww, wh |-> raw.wh]

\* Image.convert("RGBA"): an image without alpha channel becomes opaque, so
\* its alpha bounding box is the whole image
ConvertRGBA(img) ==
    IF img.mode \in {"LA", "RGBA"} THEN [img EXCEPT !.mode = "RGBA"]
    ELSE [img EXCEPT !.mode = "RGBA", !.aw = img.w, !.ah = img.h]

\* image_utils.trim_whitespace: the size of the image it returns
trim_whitespace(img) ==
    IF img.mode \in {"LA", "RGBA"}
    THEN IF img.aw = 0 \/ img.ah = 0 THEN <<img.w, img.h>> ELSE <<img.aw, img.ah>>
    ELSE IF img.ww = 0 \/ img.wh = 0 THEN <<img.w, img.h>> ELSE <<img.ww, img.wh>>

\* the label branch
RenderLabel_mut(r, f, i) ==
    LET size == FGet(f, "size", 10)
        r1 == [r EXCEPT !.font = [name |-> IF FGet(f, "bold", FALSE) THEN "Helvetica-Bold"
                                           ELSE "Helvetica", size |-> size]]
    IN  Draw(r1, [Op0 EXCEPT !.op = "drawString", !.fld = i, !.kind = "label",
                             !.x = FGet(f, "x", 0), !.y = FGet(f, "y", 0),
                             !.txt = text_from_i18n(f)])
RenderLabel(r, f, i) ==
    LET size == FGet(f, "size", 10)
        r1 == [r EXCEPT !.font = [name |-> IF FGet(f, "bold", FALSE) THEN "Helvetica-Bold"
                                           ELSE "Helvetica", size |-> size]]
        r2 == Draw(r1, [Op0 EXCEPT !.op = "drawString", !.fld = i, !.kind = "label",
                                   !.x = FGet(f, "x", 0), !.y = FGet(f, "y", 0),
                                   !.txt = text_from_i18n(f)])
    IN  [r2 EXCEPT !.font = Helvetica10]

\* the line branch
RenderLine(r, f, i) ==
    LET r1 == [r EXCEPT !.lineWidth = FGet(f, "width", 8)]
    IN  Draw(r1, [Op0 EXCEPT !.op = "line", !.fld = i, !.kind = "line",
                             !.x = FGet(f, "x1", 0), !.y = FGet(f, "y1", 0),
                             !.w = FGet(f, "x2", 0), !.h = FGet(f, "y2", 0)])

\* the rect branch
RenderRect(r, f, i) ==
    IF ~HasBox(f) THEN Raise(r)
    ELSE Draw(r, [Op0 EXCEPT !.op = "rect", !.fld = i, !.kind = "rect",
                             !.x = f.x, !.y = f.y, !.w = f.w, !.h = f.h])

\* the image branch: nothing without bytes; a failure to decode is swallowed
RenderImage_mut(r, f, i) ==
    LET raw == DataGet(data, ValueKey(f))
    IN  IF ~Truthy(raw) THEN r
        ELSE IF raw.t # "bytes" \/ ~raw.b THEN Raise(r)
        ELSE Draw(r, [Op0 EXCEPT !.op = "drawImage", !.fld = i, !.kind = "image",
                                 !.x = f.x, !.y = f.y, !.dw = FInt(f.w), !.dh = FInt(f.h)])
RenderImage(r, f, i) ==
    LET raw == DataGet(data, ValueKey(f))
    IN  IF ~Truthy(raw) THEN r
        ELSE IF raw.t # "bytes" \/ ~raw.b THEN r
        ELSE LET pil  == ConvertRGBA(PilOpen(raw))
                 sz   == IF FGet(f, "trim", TRUE) THEN trim_whitespace(pil) ELSE <<pil.w, pil.h>>
                 mode == Lower(IF FGet(f, "scale_mode", <<>>) # <<>> THEN f.scale_mode ELSE S_fit)
                 d    == FitLayout(mode, sz[1], sz[2], f.w, f.h)
             IN  Draw(r, [Op0 EXCEPT !.op = "drawImage", !.fld = i, !.kind = "image",
                                     !.x = f.x, !.y = f.y, !.dw = d.dw, !.dh = d.dh])

\* _fill_box under an interactive field, when draw_boxes is set
Placeholder(r, f, i, kind, w, h) ==
    IF layout.draw_boxes
    THEN Draw(r, [Op0 EXCEPT !.op = "fillbox", !.fld = i, !.kind = kind,
                             !.x = f.x, !.y = f.y, !.w = w, !.h = h])
    ELSE r

\* the checkbox branch
RenderCheckbox_mut(r, f, i, flatten) ==
    LET checked == ResolveChecked(f)
        size    == Min2(f.w, f.h)
    IN  IF flatten
        THEN Draw(r, [Op0 EXCEPT !.op = "rect", !.fld = i, !.kind = "checkbox",
                                 !.x = f.x, !.y = f.y, !.w = f.w, !.h = f.h])
        ELSE Draw(Placeholder(r, f, i, "checkbox", size, size),
                  [Op0 EXCEPT !.op = "acroForm.checkbox", !.fld = i, !.kind = "checkbox",
                              !.live = TRUE, !.name = FGet(f, "name", ""),
                              !.txt = label_from_i18n(f),
                              !.x = f.x, !.y = f.y, !.w = size, !.h = size,
                              !.chk = checked])
RenderCheckbox(r, f, i, flatten) ==
    LET checked == ResolveChecked(f)
        size    == Min2(f.w, f.h)
    IN  IF flatten
        THEN LET r1 == Draw(r, [Op0 EXCEPT !.op = "rect", !.fld = i, !.kind = "checkbox",
                                           !.x = f.x, !.y = f.y, !.w = size, !.h = size])
             IN  IF checked
                 THEN LET r2 == Draw([r1 EXCEPT !.font = [name |-> "Helvetica", size |-> 12]],
                                     [Op0 EXCEPT !.op = "drawString", !.fld = i,
                                                 !.kind = "checkbox", !.x = f.x + 2,
                                                 !.y = f.y + 1, !.val = <<"U+2713">>])
                      IN  [r2 EXCEPT !.font = Helvetica10]
                 ELSE r1
        ELSE Draw(Placeholder(r, f, i, "checkbox", size, size),
                  [Op0 EXCEPT !.op = "acroForm.checkbox", !.fld = i, !.kind = "checkbox",
                              !.live = TRUE, !.name = FGet(f, "name", ""),
                              !.txt = label_from_i18n(f),
                              !.x = f.x, !.y = f.y, !.w = size, !.h = size,
                              !.chk = checked])

\* the text / textarea path, also taken by every unrecognized kind
RenderText_mut(r, f, i, kind, flatten) ==
    LET multi == kind # S_text
    IN  IF flatten
        THEN IF multi
             THEN Draw(r, [Op0 EXCEPT !.op = "paragraph", !.fld = i, !.kind = "text",
                                      !.x = f.x + 1, !.y = f.y + 1, !.w = f.w - 2,
                                      !.h = f.h - 2, !.n = FF_MULTILINE,
                                      !.val = ReplaceNewlines(BoundString(f))])
             ELSE Draw([r EXCEPT !.font = Helvetica10],
                       [Op0 EXCEPT !.op = "drawString", !.fld = i, !.kind = "text",
                                   !.x = f.x + 1, !.y = f.y + f.h - 12,
                                   !.val = BoundString(f)])
        ELSE Draw(Placeholder(r, f, i, "text", f.w, f.h),
                  [Op0 EXCEPT !.op = "acroForm.textfield", !.fld = i, !.kind = "text",
                              !.live = TRUE, !.name = FGet(f, "name", ""),
                              !.txt = label_from_i18n(f),
                              !.x = f.x, !.y = f.y, !.w = f.w, !.h = f.h,
                              !.n = IF multi THEN FF_MULTILINE ELSE 0,
                              !.val = BoundString(f)])
RenderText(r, f, i, kind, flatten) ==
    LET multi == kind \in {S_textarea, S_multiline}
    IN  IF flatten
        THEN IF multi
             THEN Draw(r, [Op0 EXCEPT !.op = "paragraph", !.fld = i, !.kind = "text",
                                      !.x = f.x + 1, !.y = f.y + 1, !.w = f.w - 2,
                                      !.h = f.h - 2, !.n = FF_MULTILINE,
                                      !.val = ReplaceNewlines(BoundString(f))])
             ELSE Draw([r EXCEPT !.font = Helvetica10],
                       [Op0 EXCEPT !.op = "drawString", !.fld = i, !.kind = "text",
                                   !.x = f.x + 1, !.y = f.y + f.h - 12,
                                   !.val = BoundString(f)])
        ELSE Draw(Placeholder(r, f, i, "text", f.w, f.h),
                  [Op0 EXCEPT !.op = "acroForm.textfield", !.fld = i, !.kind = "text",
                              !.live = TRUE, !.name = FGet(f, "name", ""),
                              !.txt = label_from_i18n(f),
                              !.x = f.x, !.y = f.y, !.w = f.w, !.h = f.h,
                              !.n = IF multi THEN FF_MULTILINE ELSE 0,
                              !.val = BoundString(f)])

\* one iteration of `for f in fields`
RenderField(r, flatten) ==
    LET f    == layout.fields[r.i]
        r1   == AdvanceTo(r, FGet(f, "page", 1))
        kind == KindOf(f)
        r2   == CASE kind = S_label -> RenderLabel(r1, f, r.i)
                  [] kind = S_line  -> RenderLine(r1, f, r.i)
                  [] kind = S_rect  -> RenderRect(r1, f, r.i)
                  [] OTHER ->
                       IF ~HasBox(f) THEN Raise(r1)
                       ELSE IF kind = S_image THEN RenderImage(r1, f, r.i)
                       ELSE IF kind = S_checkbox THEN RenderCheckbox(r1, f, r.i, flatten)
                       ELSE RenderText(r1, f, r.i, kind, flatten)
    IN  IF r2.pc = "render" THEN [r2 EXCEPT !.i = @ + 1] ELSE r2

\* the values of the variables a specification does not use
IdleBool == bIn = EmptyMap /\ bOut = [done |-> FALSE, generic |-> FALSE, builder |-> FALSE, static |-> FALSE]
IdleFit  == fIn = [mode |-> S_fit, sw |-> 1, sh |-> 1, bw |-> 1, bh |-> 1] /\ fOut = <<>>
IdleRender ==
    /\ layout = [fields |-> <<>>, backgrounds |-> <<>>, draw_boxes |-> TRUE]
    /\ data = EmptyMap
    /\ run = [m \in BOOLEAN |-> Run0]

(***************************************************************************)
(* The auto-layout renderer                                                *)
(***************************************************************************)
A4_HEIGHT == 842        \* A4[1] = 841.89 pt, in whole points
line_h    == 18

\* the row drawn last: y0 = the cursor before its page-break check, y = the
\* cursor it was drawn at, low = the lowest coordinate it draws at, check =
\* the height its page-break check tested, broke = the check started a page
Row0 == [kind |-> "none", ftype |-> <<>>, y0 |-> 0, y |-> 0, low |-> 0, check |-> 0,
         broke |-> FALSE, page |-> 0]

Auto0 == [pc |-> "ready", flatten |-> FALSE, page_h |-> A4_HEIGHT, top |-> 36, bottom |-> 36,
          has_misc |-> FALSE, y |-> 0, shown |-> 0, font |-> [name |-> "Helvetica", size |-> 12],
          n |-> 0, last |-> Row0, out |-> "none"]

IdleAuto == auto = Auto0

\* The call: the function called, and the layout file of the form: form_key
\* given or not, and what
\* forms/<form_key>/layout.json is: "missing", "unreadable" (read_text
\* raises), "unparsable" (json.loads raises), "empty" (it parses to {}) or
\* "document" (it parses to the LayoutDocument `layout`)
Form0 == [entry |-> "build_interactive_pdf", key |-> TRUE, file |-> "document"]

\* the function the caller calls: the generic build_interactive_pdf or the
\* builder of the form obdachlosigkeit
Generic == form.entry = "build_interactive_pdf"

\* a Schema: the sections, and the keys of its misc block
Schema0 == [sections |-> <<>>, misc |-> {}]

\* an auto-layout render of the Schema before the call
SRun0 == [pc |-> "ready", flatten |-> FALSE, page_h |-> A4_HEIGHT, top |-> 36, bottom |-> 36,
          has_misc |-> FALSE, y |-> 0, shown |-> 0, font |-> [name |-> "Helvetica", size |-> 12],
          n |-> 0, last |-> Row0, out |-> "none",
          ops |-> <<>>, si |-> 1, fi |-> 1, saves |-> 0, trailer |-> 0]

\* _read_layout(form_key): None without a form key, without the file and on
\* any exception of read_text or json.loads; else what the file parses to
read_layout_mut(f) ==
    IF f.file \in {"missing", "unreadable", "unparsable"} THEN "none" ELSE f.file
read_layout(f) ==
    IF ~f.key THEN "none"
    ELSE IF f.file = "missing" THEN "none"
    ELSE IF f.file \in {"unreadable", "unparsable"} THEN "none"
    ELSE f.file

\* `if layout:` in build_interactive_pdf: None and {} are falsy
UsesLayout == read_layout(form) = "document"

IdleBuild == form = Form0 /\ schema = Schema0 /\ srun = [m \in BOOLEAN |-> SRun0]

\* app.py before a submit, the session before the signature UI has run, and
\* form_to_pdf before a call
Sub0  == [pc |-> "idle"]
Sess0 == [keys |-> {}, signature_bytes |-> [len |-> -1, ok |-> FALSE, w |-> 0, h |-> 0],
          signature_meta |-> [source |-> "None", size_px |-> <<>>],
          mode |-> "draw", drawn |-> FALSE,
          uploaded |-> [len |-> -1, ok |-> FALSE, w |-> 0, h |-> 0],
          last |-> "", preview |-> FALSE]
\* schema_to_interactive_pdf before its call: the FlowLayout cursor, the
\* position in the sections and what the canvas holds
Flow0 == [pc |-> "idle", cursor_y |-> 0, current_col |-> 0, si |-> 1, fi |-> 1,
          ops |-> <<>>, shown |-> 0, saves |-> 0]
IdleSub  == sub = Sub0
IdleSess == sess = Sess0
IdleFlow == flow = Flow0
IdleApp  == IdleSub /\ IdleSess /\ IdleFlow

\* _render_auto_layout.new_page
new_page_mut(a) == [a EXCEPT !.shown = @ + 1, !.font = Helvetica10]
new_page(a) == [a EXCEPT !.shown = @ + 1, !.font = Helvetica10, !.y = a.page_h - a.top]

\* a row of the auto layout: the page-break check against `check`, the row
\* drawn with its lowest content `depth` under the cursor, the cursor
\* lowered by `advance`
DrawRow(a, kind, ftype, check, depth, advance) ==
    LET a1 == IF a.y - check < a.bottom THEN new_page(a) ELSE a
    IN  [a1 EXCEPT !.last = [kind |-> kind, ftype |-> ftype, y0 |-> a.y, y |-> a1.y,
                             low |-> a1.y - depth, check |-> check,
                             broke |-> a1.shown # a.shown, page |-> a1.shown + 1],
                   !.font = Helvetica10,
                   !.y = a1.y - advance,
                   !.n = @ + 1]

\* _render_auto_layout.draw_section: the title at y - 12
draw_section(a) == DrawRow(a, "section", <<>>, 20, 12, 8)

\* _render_auto_layout.draw_text: label at y - 12, value at y - 12 (flatten)
\* or the field box from y - 16 (interactive)
draw_text_mut(a, ftype) ==
    DrawRow(a, "text", ftype, line_h, IF a.flatten THEN 12 ELSE 16, 16)
draw_text(a, ftype) ==
    DrawRow(a, "text", ftype, line_h, IF a.flatten THEN 12 ELSE 16, line_h)

\* _render_auto_layout.draw_textarea: h = max(16 * rows + 4, 36); the
\* paragraph from y - h + 6 (flatten) or the field box from y - h + 4
TextareaHeight(rows) == IF 16 * rows + 4 >= 36 THEN 16 * rows + 4 ELSE 36
draw_textarea_mut(a, ftype, rows) ==
    LET h == TextareaHeight(rows)
    IN  DrawRow(a, "textarea", ftype, line_h, IF a.flatten THEN h - 6 ELSE h - 4, h + 4)
draw_textarea(a, ftype, rows) ==
    LET h == TextareaHeight(rows)
    IN  DrawRow(a, "textarea", ftype, h, IF a.flatten THEN h - 6 ELSE h - 4, h + 4)

\* _render_auto_layout.draw_checkbox: the square from y - 14
draw_checkbox(a, ftype) == DrawRow(a, "checkbox", ftype, line_h, 14, line_h)

\* the place / date row: checked against 40, drawn like a text row, the
\* cursor left where it is
draw_place_date(a) == DrawRow(a, "place_date", <<>>, 40, IF a.flatten THEN 12 ELSE 16, 0)

\* ftype = (fld.get("type") or "text").lower() and the dispatch on it
DispatchField(a, rawtype) ==
    LET ftype == Lower(IF rawtype # <<>> THEN rawtype ELSE S_text)
    IN  IF ftype \in {S_text, <<"i","n","p","u","t">>, <<"s","t","r","i","n","g">>}
        THEN draw_text(a, ftype)
        ELSE IF ftype \in {S_textarea, S_multiline}
        THEN draw_textarea(a, ftype, 5)
        ELSE IF ftype \in {S_checkbox, <<"b","o","o","l">>, <<"b","o","o","l","e","a","n">>}
        THEN draw_checkbox(a, ftype)
        ELSE draw_text(a, ftype)

\* the type strings of the schema fields (<<>>: no type)
AutoTypes == {<<>>, S_text, <<"T","e","x","t","a","r","e","a">>, S_multiline, S_checkbox,
              <<"b","o","o","l">>, <<"s","i","g","n","a","t","u","r","e">>}

\* the title: drawn at page_h - top, the cursor 28 below it
BeginAuto ==
    /\ auto.pc = "ready"
    /\ auto' = [auto EXCEPT !.pc = "sections", !.font = Helvetica10,
                            !.y = auto.page_h - auto.top - 28]
    /\ UNCHANGED <<layout, data, run, bIn, bOut, fIn, fOut, form, schema, srun, sub, sess, flow>>

\* the next section of the schema: its title row
Section ==
    /\ auto.pc = "sections" /\ auto.n < MaxRows
    /\ auto' = [draw_section(auto) EXCEPT !.pc = "fields"]
    /\ UNCHANGED <<layout, data, run, bIn, bOut, fIn, fOut, form, schema, srun, sub, sess, flow>>

\* the next field of the section
FieldRow ==
    /\ auto.pc = "fields" /\ auto.n < MaxRows
    /\ \E rawtype \in AutoTypes : auto' = DispatchField(auto, rawtype)
    /\ UNCHANGED <<layout, data, run, bIn, bOut, fIn, fOut, form, schema, srun, sub, sess, flow>>

\* after the last field of the section: y -= 6
EndSection ==
    /\ auto.pc = "fields"
    /\ auto' = [auto EXCEPT !.pc = "sections", !.y = @ - 6]
    /\ UNCHANGED <<layout, data, run, bIn, bOut, fIn, fOut, form, schema, srun, sub, sess, flow>>

\* after the last section: the place / date row when misc declares it
Trailer ==
    /\ auto.pc = "sections"
    /\ auto' = [(IF auto.has_misc THEN draw_place_date(auto) ELSE auto) EXCEPT !.pc = "rendered"]
    /\ UNCHANGED <<layout, data, run, bIn, bOut, fIn, fOut, form, schema, srun, sub, sess, flow>>

\* c.save() and the return of the bytes
SaveAuto ==
    /\ auto.pc = "rendered"
    /\ auto' = [auto EXCEPT !.pc = "returned", !.out = "bytes"]
    /\ UNCHANGED <<layout, data, run, bIn, bOut, fIn, fOut, form, schema, srun, sub, sess, flow>>

NextAuto == BeginAuto \/ Section \/ FieldRow \/ EndSection \/ Trailer \/ SaveAuto

InitAuto ==
    /\ auto \in {[Auto0 EXCEPT !.flatten = fl, !.page_h = ph, !.top = t, !.bottom = b,
                               !.has_misc = mi] :
                    fl \in BOOLEAN, ph \in {200, A4_HEIGHT}, t \in {36, 120},
                    b \in {36, 70}, mi \in BOOLEAN}
    /\ IdleBool /\ IdleFit /\ IdleRender /\ IdleBuild /\ IdleApp

SpecAuto == InitAuto /\ [][NextAuto]_vars

(***************************************************************************)
(* The auto-layout renderer on a given Schema: the drawing calls of every  *)
(* row, in the flatten render (srun[TRUE]) and the interactive render      *)
(* (srun[FALSE]) of the same Schema and ValueMap, advanced together        *)
(***************************************************************************)
A4_WIDTH == 595         \* A4[0] = 595.27 pt, in whole points
left     == 40          \* pdf_options.get("leftMargin", 40)
right    == 40          \* pdf_options.get("rightMargin", 40)
x_label  == left
x_field  == left + 250
field_w  == A4_WIDTH - right - x_field

\* data.get(key, dflt)
DataGetD(d, k, dflt) == IF k \in DOMAIN d THEN d[k] ELSE dflt

\* the string bound to an auto-layout text field: str(data.get(name, "") or "")
\* in the flatten render, str(data.get(name, "")) in the interactive one
AutoValue(name, flatten) ==
    LET v == DataGetD(data, name, PyStr(<<>>))
    IN  IF flatten THEN StrOf(OrEmpty(v)) ELSE StrOf(v)

\* the drawing calls of a row are logged with the page and the number of the
\* row; `name` is the ValueMap key the call was bound to
RowOps(a, os) ==
    [a EXCEPT !.ops = @ \o [k \in 1..Len(os) |->
                               [os[k] EXCEPT !.page = a.last.page, !.fld = a.n]]]

\* _fill_box under an interactive auto-layout field (interactive_draw_boxes
\* defaults to True)
AutoBox(kind, x, y, w, h) ==
    [Op0 EXCEPT !.op = "fillbox", !.kind = kind, !.x = x, !.y = y, !.w = w, !.h = h]

\* draw_section(title) and its drawString
section_row(a, title) ==
    LET a1 == draw_section(a)
    IN  RowOps(a1, <<[Op0 EXCEPT !.op = "drawString", !.kind = "section", !.x = x_label,
                                 !.y = a1.last.y - 12, !.txt = title,
                                 !.font = [name |-> "Helvetica-Bold", size |-> 11]]>>)

\* draw_text(label, name) and its drawing calls
text_row(a, ftype, label, name) ==
    LET a1  == draw_text(a, ftype)
        y   == a1.last.y
        cap == [Op0 EXCEPT !.op = "drawString", !.kind = "caption", !.x = x_label,
                           !.y = y - 12, !.txt = label \o ":"]
    IN  IF a.flatten
        THEN RowOps(a1, <<cap, [Op0 EXCEPT !.op = "drawString", !.kind = "text",
                                           !.x = x_field + 1, !.y = y - 12, !.name = name,
                                           !.val = AutoValue(name, TRUE)]>>)
        ELSE RowOps(a1, <<cap, AutoBox("text", x_field, y - 16, field_w, 16),
                          [Op0 EXCEPT !.op = "acroForm.textfield", !.kind = "text",
                                      !.live = TRUE, !.name = name, !.txt = label,
                                      !.x = x_field, !.y = y - 16, !.w = field_w, !.h = 16,
                                      !.val = AutoValue(name, FALSE)]>>)

\* draw_textarea(label, name, rows) and its drawing calls
textarea_row(a, ftype, label, name, rows) ==
    LET a1  == draw_textarea(a, ftype, rows)
        y   == a1.last.y
        h   == TextareaHeight(rows)
        cap == [Op0 EXCEPT !.op = "drawString", !.kind = "caption", !.x = x_label,
                           !.y = y - 12, !.txt = label \o ":"]
    IN  IF a.flatten
        THEN RowOps(a1, <<cap, [Op0 EXCEPT !.op = "paragraph", !.kind = "textarea",
                                           !.x = x_field + 1, !.y = y - h + 6,
                                           !.w = field_w - 2, !.h = h - 8,
                                           !.n = FF_MULTILINE, !.name = name,
                                           !.val = ReplaceNewlines(AutoValue(name, TRUE))]>>)
        ELSE RowOps(a1, <<cap, AutoBox("textarea", x_field, y - h + 4, field_w, h - 8),
                          [Op0 EXCEPT !.op = "acroForm.textfield", !.kind = "textarea",
                                      !.live = TRUE, !.name = name, !.txt = label,
                                      !.x = x_field, !.y = y - h + 4, !.w = field_w,
                                      !.h = h - 8, !.n = FF_MULTILINE,
                                      !.val = AutoValue(name, FALSE)]>>)

\* draw_checkbox(label, name) and its drawing calls
checkbox_row(a, ftype, label, name) ==
    LET a1   == draw_checkbox(a, ftype)
        y    == a1.last.y
        chk  == booly(DataGet(data, name))
        cap  == [Op0 EXCEPT !.op = "drawString", !.kind = "caption", !.x = x_field + 12 + 6,
                            !.y = y - 12, !.txt = label]
        box  == [Op0 EXCEPT !.op = "rect", !.kind = "checkbox", !.x = x_field, !.y = y - 14,
                            !.w = 12, !.h = 12, !.name = name]
        mark == [Op0 EXCEPT !.op = "drawString", !.kind = "checkbox", !.x = x_field + 2,
                            !.y = y - 13, !.val = <<"U+2713">>, !.name = name,
                            !.font = [name |-> "Helvetica", size |-> 12]]
    IN  IF a.flatten
        THEN RowOps(a1, IF chk THEN <<box, mark, cap>> ELSE <<box, cap>>)
        ELSE RowOps(a1, <<AutoBox("checkbox", x_field, y - 14, 12, 12),
                          [Op0 EXCEPT !.op = "acroForm.checkbox", !.kind = "checkbox",
                                      !.live = TRUE, !.name = name, !.txt = label,
                                      !.x = x_field, !.y = y - 14, !.w = 12, !.h = 12,
                                      !.chk = chk], cap>>)

\* the place / date row and its drawing calls; field_w / 2 in whole points
place_date_row(a) ==
    LET a1    == draw_place_date(a)
        y     == a1.last.y
        half  == field_w \div 2
        ort   == i18n_get("field.ort", "Ort")
        datum == i18n_get("field.datum", "Datum")
        cap1  == [Op0 EXCEPT !.op = "drawString", !.kind = "caption", !.x = x_label,
                             !.y = y - 12, !.txt = ort \o ":"]
        cap2  == [Op0 EXCEPT !.op = "drawString", !.kind = "caption",
                             !.x = x_field + half + 10, !.y = y - 12, !.txt = datum \o ":"]
    IN  IF a.flatten
        THEN RowOps(a1, <<cap1,
                          [Op0 EXCEPT !.op = "drawString", !.kind = "place_date",
                                      !.x = x_field + 1, !.y = y - 12, !.name = "stadt",
                                      !.val = AutoValue("stadt", TRUE)],
                          cap2,
                          [Op0 EXCEPT !.op = "drawString", !.kind = "place_date",
                                      !.x = x_field + half + 52, !.y = y - 12, !.name = "datum",
                                      !.val = AutoValue("datum", TRUE)]>>)
        ELSE RowOps(a1, <<cap1,
                          AutoBox("place_date", x_field, y - 16, half - 10, 16),
                          [Op0 EXCEPT !.op = "acroForm.textfield", !.kind = "place_date",
                                      !.live = TRUE, !.name = "stadt", !.txt = ort,
                                      !.x = x_field, !.y = y - 16, !.w = half - 10, !.h = 16,
                                      !.val = AutoValue("stadt", FALSE)],
                          cap2,
                          AutoBox("place_date", x_field + half + 50, y - 16, half - 50, 16),
                          [Op0 EXCEPT !.op = "acroForm.textfield", !.kind = "place_date",
                                      !.live = TRUE, !.name = "datum", !.txt = datum,
                                      !.x = x_field + half + 50, !.y = y - 16,
                                      !.w = half - 50, !.h = 16,
                                      !.val = AutoValue("datum", FALSE)]>>)

\* the title of the document, drawn at page_h - top; the cursor 28 below it
title_row(a) ==
    LET y == a.page_h - a.top
    IN  [a EXCEPT !.pc = "sections", !.font = Helvetica10, !.y = y - 28,
                  !.ops = Append(@, [Op0 EXCEPT !.op = "drawString", !.kind = "title",
                                                !.page = 1, !.x = x_label, !.y = y,
                                                !.txt = i18n_get("app.title", "Interactive Form"),
                                                !.font = [name |-> "Helvetica-Bold",
                                                          size |-> 14]])]

\* title = i18n.get(section.get("title_i18n", section.get("key", "")), section.get("key", ""))
SectionTitle(sec) ==
    i18n_get(FGet(sec, "title_i18n", FGet(sec, "key", "")), FGet(sec, "key", ""))

\* section.get("fields", [])
SectionFields(sec) == FGet(sec, "fields", <<>>)

\* one iteration of `for fld in section.get("fields", [])`; section['key']
\* raises KeyError for a section without a key
schema_field_mut(a, sec, fld) ==
    IF "key" \notin sec.has THEN [a EXCEPT !.pc = "raised"]
    ELSE LET key   == FGet(fld, "key", "")
             name  == key
             label == i18n_get(FGet(fld, "label_i18n", key), key)
             ftype == Lower(IF FGet(fld, "type", <<>>) # <<>> THEN fld.type ELSE S_text)
             a1    == IF ftype \in {S_text, <<"i","n","p","u","t">>, <<"s","t","r","i","n","g">>}
                      THEN text_row(a, ftype, label, name)
                      ELSE IF ftype \in {S_textarea, S_multiline}
                      THEN textarea_row(a, ftype, label, name, 5)
                      ELSE IF ftype \in {S_checkbox, <<"b","o","o","l">>,
                                         <<"b","o","o","l","e","a","n">>}
                      THEN checkbox_row(a, ftype, label, name)
                      ELSE text_row(a, ftype, label, name)
         IN  [a1 EXCEPT !.fi = @ + 1]
schema_field(a, sec, fld) ==
    IF "key" \notin sec.has THEN [a EXCEPT !.pc = "raised"]
    ELSE LET key   == FGet(fld, "key", "")
             name  == sec.key \o "_" \o key
             label == i18n_get(FGet(fld, "label_i18n", key), key)
             ftype == Lower(IF FGet(fld, "type", <<>>) # <<>> THEN fld.type ELSE S_text)
             a1    == IF ftype \in {S_text, <<"i","n","p","u","t">>, <<"s","t","r","i","n","g">>}
                      THEN text_row(a, ftype, label, name)
                      ELSE IF ftype \in {S_textarea, S_multiline}
                      THEN textarea_row(a, ftype, label, name, 5)
                      ELSE IF ftype \in {S_checkbox, <<"b","o","o","l">>,
                                         <<"b","o","o","l","e","a","n">>}
                      THEN checkbox_row(a, ftype, label, name)
                      ELSE text_row(a, ftype, label, name)
         IN  [a1 EXCEPT !.fi = @ + 1]

\* misc = schema.get("misc", {}); ("stadt_default" in misc) or ("date_placeholder" in misc)
HasPlaceDate_mut(sch) == "stadt_default" \in sch.misc /\ "date_placeholder" \in sch.misc
HasPlaceDate(sch) == "stadt_default" \in sch.misc \/ "date_placeholder" \in sch.misc

\* after the last section: the place / date row when misc declares it; the
\* function returns
trailer(a) ==
    [(IF HasPlaceDate(schema) THEN [place_date_row(a) EXCEPT !.trailer = @ + 1] ELSE a)
        EXCEPT !.pc = "rendered"]

Sections == schema.sections

\* the key of `data` a field of a section reads: the composite name
SchemaFieldKeys(sec, fld) ==
    IF "key" \notin sec.has THEN <<>> ELSE <<sec.key \o "_" \o FGet(fld, "key", "")>>

\* build_interactive_pdf without a usable layout: _render_auto_layout begins
SBegin ==
    /\ Generic /\ ~UsesLayout
    /\ \A m \in BOOLEAN : srun[m].pc = "ready"
    /\ srun' = [m \in BOOLEAN |-> title_row(srun[m])]
    /\ UNCHANGED <<bIn, bOut, fIn, fOut, layout, data, run, auto, form, schema, sub, sess, flow>>

\* the next section: its title row
SSection ==
    /\ \A m \in BOOLEAN : srun[m].pc = "sections" /\ srun[m].si <= Len(Sections)
    /\ srun' = [m \in BOOLEAN |->
                   [section_row(srun[m], SectionTitle(Sections[srun[m].si]))
                       EXCEPT !.pc = "fields", !.fi = 1]]
    /\ UNCHANGED <<bIn, bOut, fIn, fOut, layout, data, run, auto, form, schema, sub, sess, flow>>

\* the next field of the section
SField ==
    /\ \A m \in BOOLEAN : /\ srun[m].pc = "fields"
                          /\ srun[m].fi <= Len(SectionFields(Sections[srun[m].si]))
    /\ srun' = [m \in BOOLEAN |->
                   LET sec == Sections[srun[m].si]
                   IN  schema_field(srun[m], sec, SectionFields(sec)[srun[m].fi])]
    /\ data' = LET sec == Sections[srun[TRUE].si]
               IN  AfterGets(data, SchemaFieldKeys(sec, SectionFields(sec)[srun[TRUE].fi]))
    /\ UNCHANGED <<bIn, bOut, fIn, fOut, layout, run, auto, form, schema, sub, sess, flow>>

\* after the last field of the section: y -= 6
SEndSection ==
    /\ \A m \in BOOLEAN : /\ srun[m].pc = "fields"
                          /\ srun[m].fi > Len(SectionFields(Sections[srun[m].si]))
    /\ srun' = [m \in BOOLEAN |-> [srun[m] EXCEPT !.pc = "sections", !.si = @ + 1, !.y = @ - 6]]
    /\ UNCHANGED <<bIn, bOut, fIn, fOut, layout, data, run, auto, form, schema, sub, sess, flow>>

\* after the last section
STrailer ==
    /\ \A m \in BOOLEAN : srun[m].pc = "sections" /\ srun[m].si > Len(Sections)
    /\ srun' = [m \in BOOLEAN |-> trailer(srun[m])]
    /\ data' = AfterGets(data, IF HasPlaceDate(schema) THEN <<"stadt", "datum">> ELSE <<>>)
    /\ UNCHANGED <<bIn, bOut, fIn, fOut, layout, run, auto, form, schema, sub, sess, flow>>

\* c.save() and the return of the bytes
SSave ==
    /\ \A m \in BOOLEAN : srun[m].pc = "rendered"
    /\ srun' = [m \in BOOLEAN |->
                   [srun[m] EXCEPT !.pc = "returned", !.saves = @ + 1, !.out = "bytes"]]
    /\ UNCHANGED <<bIn, bOut, fIn, fOut, layout, data, run, auto, form, schema, sub, sess, flow>>

(***************************************************************************)
(* forms/obdachlosigkeit/interactive_builder: the one page of the form     *)
(* "Anzeige von unfreiwilliger Obdachlosigkeit".  Captions are written in  *)
(* ASCII (ae, oe, ue for the umlauts, ... for the ellipsis).               *)
(***************************************************************************)
col1 == 220
col2 == 120
col3 == 180
tf_pad == 6
tf_h == 16

\* _text(c, x, y, txt, size, bold)
OText(x, y, txt, size, bold) ==
    [Op0 EXCEPT !.op = "drawString", !.kind = "static", !.x = x, !.y = y, !.txt = txt,
                !.font = [name |-> IF bold THEN "Helvetica-Bold" ELSE "Helvetica",
                          size |-> size]]

\* c.rect(x, y, w, h, stroke=1, fill=0) and c.line(x1, y1, x2, y2)
ORect(x, y, w, h) ==
    [Op0 EXCEPT !.op = "rect", !.kind = "static", !.x = x, !.y = y, !.w = w, !.h = h]
OLine(x1, y1, x2, y2) ==
    [Op0 EXCEPT !.op = "line", !.kind = "static", !.x = x1, !.y = y1, !.w = x2, !.h = y2]

\* value=str(data.get(name, ""))
FormValue(name) == StrOf(DataGetD(data, name, PyStr(<<>>)))

\* TF(name, tooltip, x, y, w, h, multiline, value): drawn text when
\* flattening (`value or ""` of a string is the string), else a text field
TF(flatten, name, tooltip, x, y, w, h, multiline, value) ==
    IF flatten
    THEN IF multiline
         THEN <<[Op0 EXCEPT !.op = "paragraph", !.kind = "text", !.name = name,
                            !.x = x + 1, !.y = y + 1, !.w = w - 2, !.h = h - 2,
                            !.val = ReplaceNewlines(value)]>>
         ELSE <<[Op0 EXCEPT !.op = "drawString", !.kind = "text", !.name = name,
                            !.x = x + 1, !.y = y + h - 12, !.val = value]>>
    ELSE <<[Op0 EXCEPT !.op = "acroForm.textfield", !.kind = "text", !.live = TRUE,
                       !.name = name, !.txt = tooltip, !.x = x, !.y = y, !.w = w, !.h = h,
                       !.n = IF multiline THEN FF_MULTILINE ELSE 0, !.val = value]>>

\* CB(name, tooltip, x, y, size, checked): a drawn square with a check mark
\* when flattening, else a checkbox
CB(flatten, name, tooltip, x, y, size, checked) ==
    IF flatten
    THEN <<[Op0 EXCEPT !.op = "rect", !.kind = "checkbox", !.name = name,
                       !.x = x, !.y = y, !.w = size, !.h = size]>>
         \o (IF checked
             THEN <<[Op0 EXCEPT !.op = "drawString", !.kind = "checkbox", !.name = name,
                                !.x = x + 2, !.y = y + 1, !.val = <<"U+2713">>,
                                !.font = [name |-> "Helvetica", size |-> 12]]>>
             ELSE <<>>)
    ELSE <<[Op0 EXCEPT !.op = "acroForm.checkbox", !.kind = "checkbox", !.live = TRUE,
                       !.name = name, !.txt = tooltip, !.x = x, !.y = y, !.w = size,
                       !.h = size, !.chk = checked]>>

\* section_header(title_text, checkbox_name, y_pos, checked); returns y_pos - 18
section_header(flatten, title_text, checkbox_name, y_pos, checked) ==
    CB(flatten, checkbox_name, title_text, left, y_pos - 12, 12, checked)
    \o <<OText(left + 12 + 6, y_pos - 10, title_text, 11, TRUE)>>

\* paragraph_area(label, name, y_pos, height, value); returns bx_y - 14
paragraph_area(flatten, label, name, y_pos, height, value) ==
    LET bx_y == y_pos - 12 - height
    IN  <<OText(left, y_pos - 12, label, 10, FALSE),
          ORect(left, bx_y, col1 + col2 + col3, height)>>
        \o TF(flatten, name, label, left + 4, bx_y + 4, col1 + col2 + col3 - 8, height - 8,
              TRUE, value)

\* the signature: the picture fitted into the 180 x 28 box when the bytes
\* decode, the empty box without a signature and on any exception
signature_area(raw_sig, sig_x, sig_y, sig_w, sig_h) ==
    IF Truthy(raw_sig) /\ raw_sig.t = "bytes" /\ raw_sig.b
    THEN LET sz == trim_whitespace(ConvertRGBA(PilOpen(raw_sig)))
             d  == FitSignatureImage(S_fit, sz[1], sz[2], sig_w, sig_h)
         IN  <<[Op0 EXCEPT !.op = "drawImage", !.kind = "image", !.name = "signature_bytes",
                           !.x = sig_x, !.y = sig_y, !.dw = d.dw, !.dh = d.dh]>>
    ELSE <<ORect(sig_x, sig_y, sig_w, sig_h)>>

\* the keys of `data` the builder reads, in the order of its data.get calls
ObdachKeys ==
    <<"person_name", "person_geb", "person_has_relatives", "person_has_relatives",
      "person_relatives_text", "erst_checked", "erst_gruende", "unterb_checked",
      "unterb_gruende", "verl_checked", "verl_endet_am", "wechsel_checked",
      "wechsel_gruende", "stadt", "datum", "signature_bytes">>

\* build_pdf_interactive_obdachlosigkeit(data, i18n=..., pdf_options=..., flatten=...)
build_pdf_interactive_obdachlosigkeit(a) ==
    LET fl      == a.flatten
        y0      == a.page_h - a.top
        table_w == col1 + col2 + col3
        table_y == (y0 - 18) - 8
        hdr_h   == 32
        data_h  == 84
        row_y   == table_y - hdr_h - data_h
        tf_y    == row_y + data_h - tf_pad - tf_h
        rel_x   == left + col1 + col2 + tf_pad
        rel2_y  == tf_y - 24
        has_rel == booly_builder(DataGet(data, "person_has_relatives"))
        y1      == row_y - 16
        y2      == y1 - 18
        y3      == (y2 - 12 - 70) - 14
        y4      == y3 - 18
        y5      == (y4 - 12 - 70) - 14
        y6      == y5 - 18
        y7      == y6 - 28
        y8      == y7 - 22
        y9      == y8 - 18
        y10     == (y9 - 12 - 170) - 14
        y11     == y10 - 36
        n_name  == i18n_get("person.name", "Name, Vorname")
        n_geb   == i18n_get("person.geb", "Geburtsdatum")
        n_rel   == i18n_get("person.has_relatives", "Angehoerige")
        n_ort   == i18n_get("field.ort", "Ort")
        n_datum == i18n_get("field.datum", "Datum")
        n_endet == i18n_get("verl.endet_am", "Endet am")
        os ==
            <<OText(left, y0, i18n_get("app.title", "Anzeige von unfreiwilliger Obdachlosigkeit"),
                    16, TRUE),
              ORect(left, table_y - hdr_h, table_w, hdr_h),
              OLine(left + col1, table_y, left + col1, table_y - hdr_h),
              OLine(left + col1 + col2, table_y, left + col1 + col2, table_y - hdr_h),
              OText(left + 6, table_y - 12, n_name, 10, FALSE),
              OText(left + col1 + 6, table_y - 12, n_geb, 10, FALSE),
              OText(left + col1 + col2 + 6, table_y - 12, "Angehoerige", 10, FALSE),
              ORect(left, row_y, table_w, data_h),
              OLine(left + col1, table_y - hdr_h, left + col1, row_y),
              OLine(left + col1 + col2, table_y - hdr_h, left + col1 + col2, row_y)>>
            \o TF(fl, "person_name", n_name, left + tf_pad, tf_y, col1 - 2 * tf_pad, tf_h,
                  FALSE, FormValue("person_name"))
            \o TF(fl, "person_geb", n_geb, left + col1 + tf_pad, tf_y, col2 - 2 * tf_pad, tf_h,
                  FALSE, FormValue("person_geb"))
            \o CB(fl, "person_no_relatives", "keine Angehoerige", rel_x, tf_y, 12, ~has_rel)
            \o <<OText(rel_x + 16, tf_y + 2, "keine Angehoerige", 10, FALSE)>>
            \o CB(fl, "person_has_relatives", n_rel, rel_x, rel2_y, 12, has_rel)
            \o <<OText(rel_x + 16, rel2_y + 2, n_rel, 10, FALSE)>>
            \o TF(fl, "person_relatives_text", i18n_get("person.relatives_text", "Angehoerige:"),
                  rel_x, rel2_y - 20, col3 - 2 * tf_pad, tf_h, FALSE,
                  FormValue("person_relatives_text"))
            \o section_header(fl, i18n_get("section.erst", "Erstzuweisung"), "erst_checked", y1,
                              booly_builder(DataGet(data, "erst_checked")))
            \o paragraph_area(fl, i18n_get("erst.gruende", "Gruende ..."), "erst_gruende", y2,
                              70, FormValue("erst_gruende"))
            \o section_header(fl, i18n_get("section.unterb", "Zuweisung nach Unterbrechung"),
                              "unterb_checked", y3,
                              booly_builder(DataGet(data, "unterb_checked")))
            \o paragraph_area(fl, i18n_get("unterb.gruende", "Gruende ..."), "unterb_gruende",
                              y4, 70, FormValue("unterb_gruende"))
            \o section_header(fl, i18n_get("section.verl", "Verlaengerung der Zuweisung"),
                              "verl_checked", y5, booly_builder(DataGet(data, "verl_checked")))
            \o <<OText(left, y6 - 12, n_endet \o ":", 10, FALSE)>>
            \o TF(fl, "verl_endet_am", n_endet, left + 320, y6 - 16, 150, 16, FALSE,
                  FormValue("verl_endet_am"))
            \o <<OText(left, y7 - 12, "Es ist mir nicht gelungen, eine Wohnung anzumieten oder woanders unterzukommen.",
                       10, FALSE)>>
            \o section_header(fl, i18n_get("section.wechsel", "Wechsel des Wohnheimes"),
                              "wechsel_checked", y8,
                              booly_builder(DataGet(data, "wechsel_checked")))
            \o paragraph_area(fl, i18n_get("wechsel.gruende", "Ich/Wir benoetige/n ..."),
                              "wechsel_gruende", y9, 170, FormValue("wechsel_gruende"))
            \o <<OText(left, y10 - 12, n_ort \o ":", 10, FALSE)>>
            \o TF(fl, "stadt", n_ort, left + 50, y10 - 16, 150, 16, FALSE, FormValue("stadt"))
            \o <<OText(left + 220, y10 - 12, n_datum \o ":", 10, FALSE)>>
            \o TF(fl, "datum", n_datum, left + 270, y10 - 16, 120, 16, FALSE, FormValue("datum"))
            \o <<OText(left, y11 - 12, i18n_get("signature.title", "Unterschrift") \o ":",
                       10, FALSE)>>
            \o signature_area(DataGet(data, "signature_bytes"), left + 70, y11 - 36, 180, 28)
    IN  [a EXCEPT !.ops = [k \in 1..Len(os) |-> [os[k] EXCEPT !.page = 1]],
                  !.shown = 1, !.saves = 1, !.pc = "returned", !.out = "bytes"]

\* one call of the builder of the form, in both renders
Obdach ==
    /\ form.entry = "build_pdf_interactive_obdachlosigkeit"
    /\ \A m \in BOOLEAN : srun[m].pc = "ready"
    /\ srun' = [m \in BOOLEAN |-> build_pdf_interactive_obdachlosigkeit(srun[m])]
    /\ data' = AfterGets(data, ObdachKeys)
    /\ UNCHANGED <<bIn, bOut, fIn, fOut, layout, run, auto, form, schema, sub, sess, flow>>

(***************************************************************************)
(* forms/obdachlosigkeit/builder.build_pdf: the static document, a story   *)
(* of platypus flowables in the order they are appended; platypus places   *)
(* them, so an element carries its text and sizes and no position          *)
(***************************************************************************)
\* Paragraph(text, style): Title is Helvetica-Bold 18, Normal Helvetica 10;
\* val is the part of the text that comes from the data
EPara(txt, val, title) ==
    [Op0 EXCEPT !.op = "Paragraph", !.kind = "static", !.txt = txt, !.val = val,
                !.font = IF title THEN [name |-> "Helvetica-Bold", size |-> 18]
                         ELSE Helvetica10]
ESpacer(height) == [Op0 EXCEPT !.op = "Spacer", !.kind = "static", !.w = 1, !.h = height]

\* a table cell holding a string: a caption, or the value of a data key
ECell(txt, name, val, width, height) ==
    [Op0 EXCEPT !.op = "Table", !.kind = IF name = "" THEN "static" ELSE "text",
                !.txt = txt, !.name = name, !.val = val, !.w = width, !.h = height]

\* _checkbox_row(label, checked, size, label_width): the box of
\* _checkbox_box, holding "X" when checked, and the label next to it
static_checkbox_row(label, val, checked, size, label_width) ==
    [Op0 EXCEPT !.op = "Table", !.kind = "checkbox", !.txt = label, !.val = val,
                !.chk = checked, !.w = size + 2 + label_width, !.h = size]

\* rel_vertical: the two choices, one under the other
rel_vertical_mut(has_rel, relatives_line) ==
    <<static_checkbox_row("keine Angehoerige", <<>>, has_rel, 12, 150),
      static_checkbox_row("Angehoerige: ", relatives_line, has_rel, 12, 150)>>
rel_vertical(has_rel, relatives_line) ==
    <<static_checkbox_row("keine Angehoerige", <<>>, ~has_rel, 12, 150),
      static_checkbox_row("Angehoerige: ", relatives_line, has_rel, 12, 150)>>

\* section_header(title_text, checked) of builder.py: box and title, 520 wide
static_section_header(title_text, checked) ==
    [Op0 EXCEPT !.op = "Table", !.kind = "checkbox", !.txt = title_text, !.chk = checked,
                !.w = 12 + 508, !.h = 12]

\* box_line(label_text, height_pt): a framed cell 520 wide
box_line(name, height_pt) ==
    ECell("", name, StrOf(DataGetD(data, name, PyStr(<<>>))), 520, height_pt)

\* (data.get(key) or "").strip() raises for a truthy value that has no strip
StripRaises(v) == Truthy(v) /\ v.t \notin {"str", "bytes"}

\* the signature block: the picture, trimmed and fitted into 180 x 80, when
\* the bytes are not empty and decode; nothing on any exception
sig_block(signature_bytes) ==
    IF Truthy(signature_bytes) /\ signature_bytes.t = "bytes" /\ signature_bytes.b
    THEN LET sz     == trim_whitespace(ConvertRGBA(PilOpen(signature_bytes)))
             box_w  == 180
             box_h  == 80
             aspect == IF sz[1] # 0 THEN Frac(sz[2], sz[1]) ELSE FInt(1)
             out_h0 == FMul(FInt(box_w), aspect)
             big    == FGt(out_h0, FInt(box_h))
         IN  <<[Op0 EXCEPT !.op = "Image", !.kind = "image", !.name = "signature_bytes",
                           !.dw = IF big THEN FDiv(FInt(box_h), aspect) ELSE FInt(box_w),
                           !.dh = IF big THEN FInt(box_h) ELSE out_h0],
               ESpacer(-12)>>
    ELSE <<>>

\* the keys of `data` build_pdf reads, in the order of its data.get calls
StaticKeys ==
    <<"person_has_relatives", "person_relatives_text", "person_name", "person_geb",
      "erst_checked", "erst_gruende", "unterb_checked", "unterb_gruende", "verl_endet_am",
      "verl_checked", "wechsel_checked", "wechsel_gruende", "stadt", "datum">>

\* build_pdf(data, i18n, pdf_options, signature_bytes)
build_pdf(a) ==
    LET has_rel == bool_static(DataGet(data, "person_has_relatives"))
        rel_raw == DataGet(data, "person_relatives_text")
        end_raw == DataGetD(data, "verl_endet_am", PyStr(<<>>))
        relatives_line == Strip(StrOf(OrEmpty(rel_raw)))
        endet   == Strip(StrOf(OrEmpty(end_raw)))
        elems ==
            <<EPara(i18n_get("app.title", "Anzeige von unfreiwilliger Obdachlosigkeit"),
                    <<>>, TRUE),
              ESpacer(8),
              ECell(i18n_get("person.name", "Name, Vorname"), "", <<>>, 220, 0),
              ECell(i18n_get("person.geb", "Geburtsdatum"), "", <<>>, 120, 0),
              ECell("Angehoerige", "", <<>>, 180, 0),
              ECell("", "person_name", StrOf(DataGetD(data, "person_name", PyStr(<<>>))),
                    220, 0),
              ECell("", "person_geb", StrOf(DataGetD(data, "person_geb", PyStr(<<>>))),
                    120, 0)>>
            \o rel_vertical(has_rel, relatives_line)
            \o <<ESpacer(14),
                 static_section_header(i18n_get("section.erst", "Erstzuweisung"),
                                       bool_static(DataGet(data, "erst_checked"))),
                 ESpacer(4),
                 EPara("Ich/ Meine Familie benoetigt einen Platz im Wohnheim, um nicht auf der Strasse schlafen zu muessen.",
                       <<>>, FALSE),
                 ESpacer(4),
                 EPara(i18n_get("erst.gruende", "Gruende ..."), <<>>, FALSE),
                 box_line("erst_gruende", 0),
                 ESpacer(10),
                 static_section_header(i18n_get("section.unterb", "Zuweisung nach Unterbrechung"),
                                       bool_static(DataGet(data, "unterb_checked"))),
                 ESpacer(4),
                 EPara(i18n_get("unterb.gruende", "Gruende ..."), <<>>, FALSE),
                 box_line("unterb_gruende", 0),
                 ESpacer(10),
                 static_section_header(i18n_get("section.verl", "Verlaengerung der Zuweisung"),
                                       bool_static(DataGet(data, "verl_checked"))),
                 ESpacer(4),
                 EPara("Die Zuweisung fuer das Wohnheim endet/e am: ", endet, FALSE),
                 EPara("Es ist mir nicht gelungen, eine Wohnung anzumieten oder woanders unterzukommen.",
                       <<>>, FALSE),
                 ESpacer(10),
                 static_section_header(i18n_get("section.wechsel", "Wechsel des Wohnheimes"),
                                       bool_static(DataGet(data, "wechsel_checked"))),
                 ESpacer(4),
                 EPara(i18n_get("wechsel.gruende",
                                "Ich/Wir benoetige/n aus folgenden Gruenden einen neuen Wohnheimplatz"),
                       <<>>, FALSE),
                 box_line("wechsel_gruende", 170),
                 EPara(i18n_get("field.ort", "Ort") \o ": ",
                       StrOf(DataGetD(data, "stadt", PyStr(<<>>))), FALSE),
                 EPara(i18n_get("field.datum", "Datum") \o ": ",
                       StrOf(DataGetD(data, "datum", PyStr(<<>>))), FALSE),
                 ESpacer(12)>>
            \o sig_block(DataGet(data, "signature_bytes"))
            \o <<EPara("_________________________", <<>>, FALSE),
                 EPara("Unterschrift der wohnungslosen Person", <<>>, FALSE)>>
    IN  IF StripRaises(rel_raw) \/ StripRaises(end_raw)
        THEN [a EXCEPT !.pc = "returned", !.out = "raised"]
        ELSE [a EXCEPT !.ops = elems, !.saves = 1, !.pc = "returned", !.out = "bytes"]

\* one call of the static builder; it has no flatten argument, the document
\* is the same whichever download was asked for
ObdachStatic ==
    /\ form.entry = "build_pdf"
    /\ \A m \in BOOLEAN : srun[m].pc = "ready"
    /\ srun' = [m \in BOOLEAN |-> build_pdf(srun[m])]
    /\ data' = AfterGets(data, StaticKeys)
    /\ UNCHANGED <<bIn, bOut, fIn, fOut, layout, run, auto, form, schema, sub, sess, flow>>

(***************************************************************************)
(* build_interactive_pdf with an explicit layout: the flatten render       *)
(* (run[TRUE]) and the interactive render (run[FALSE]) of the same         *)
(* LayoutDocument and ValueMap, advanced together                          *)
(***************************************************************************)
Fields == layout.fields

\* build_interactive_pdf up to the first field: the canvas is created, the
\* layout is read, the font set, current_page = 1, background 0 drawn
BeginRun(r) ==
    draw_background([r EXCEPT !.pc = "render", !.font = Helvetica10, !.current_page = 1], 0)

Begin ==
    /\ Generic /\ UsesLayout
    /\ \A m \in BOOLEAN : run[m].pc = "ready"
    /\ run' = [m \in BOOLEAN |-> BeginRun(run[m])]
    /\ UNCHANGED <<layout, data, bIn, bOut, fIn, fOut, auto, form, schema, srun, sub, sess, flow>>

\* the keys of `data` the branch of a field reads with data.get
FieldKeys(f) ==
    LET kind == KindOf(f)
    IN  IF kind \in {S_label, S_line, S_rect} \/ ~HasBox(f) THEN <<>>
        ELSE IF kind = S_checkbox
        THEN IF "checked_from" \in f.has THEN <<f.checked_from>>
             ELSE IF FGet(f, "checked", PyNone) = PyNone THEN <<ValueKey(f)>>
             ELSE <<>>
        ELSE <<ValueKey(f)>>

\* one field of the list, in both renders
Field ==
    /\ \E m \in BOOLEAN : run[m].pc = "render" /\ run[m].i <= Len(Fields)
    /\ run' = [m \in BOOLEAN |->
                  IF run[m].pc = "render" /\ run[m].i <= Len(Fields)
                  THEN RenderField(run[m], m) ELSE run[m]]
    /\ data' = LET m == CHOOSE b \in BOOLEAN : run[b].pc = "render" /\ run[b].i <= Len(Fields)
               IN  AfterGets(data, FieldKeys(Fields[run[m].i]))
    /\ UNCHANGED <<layout, bIn, bOut, fIn, fOut, auto, form, schema, srun, sub, sess, flow>>

\* c.save() closes the page in progress and writes the document; the bytes
\* are returned
SaveRun(r) ==
    [r EXCEPT !.pc = "returned", !.saves = @ + 1, !.npages = r.shown + 1, !.out = "bytes"]

Save ==
    /\ \E m \in BOOLEAN : run[m].pc = "render" /\ run[m].i > Len(Fields)
    /\ run' = [m \in BOOLEAN |->
                  IF run[m].pc = "render" /\ run[m].i > Len(Fields)
                  THEN SaveRun(run[m]) ELSE run[m]]
    /\ UNCHANGED <<layout, data, bIn, bOut, fIn, fOut, auto, form, schema, srun, sub, sess, flow>>

Next == Begin \/ Field \/ Save

\* --- the layout documents of the field-kind specification
Box(f, x, y, w, h) ==
    [f EXCEPT !.has = @ \cup BoxKeys, !.x = x, !.y = y, !.w = w, !.h = h]
Typed(t, page, name) ==
    [F0 EXCEPT !.has = {"type", "page", "name"}, !.type = t, !.page = page, !.name = name]
Without(f, k) == [f EXCEPT !.has = @ \ {k}]

T_text     == Box(Typed(S_text, 1, "person_name"), 100, 700, 200, 16)
T_textarea == LET f == Box(Typed(<<"T","e","x","t","a","r","e","a">>, 2, "notes"), 100, 500, 200, 60)
              IN  [f EXCEPT !.has = @ \cup {"value_from", "default"},
                            !.value_from = "person_name", !.default = PyStr(<<"-", "\n", "-">>)]
T_cb_from  == LET f == Box(Typed(S_checkbox, 1, "cb"), 50, 400, 12, 14)
              IN  [f EXCEPT !.has = @ \cup {"checked_from", "checked"},
                            !.checked_from = "agree", !.checked = PyBool(FALSE)]
T_cb_true  == LET f == Box(Typed(S_checkbox, 1, "agree"), 50, 380, 14, 12)
              IN  [f EXCEPT !.has = @ \cup {"checked"}, !.checked = PyBool(TRUE)]
T_cb_false == LET f == Box(Typed(S_checkbox, 2, "agree"), 50, 380, 14, 12)
              IN  [f EXCEPT !.has = @ \cup {"checked"}, !.checked = PyBool(FALSE)]
T_cb_name  == Box(Typed(S_checkbox, 2, "agree"), 50, 360, 12, 12)
T_image    == LET f == Box(Typed(S_image, 1, "signature"), 0, 0, 150, 40)
              IN  [f EXCEPT !.has = @ \cup {"value_from"}, !.value_from = "sig"]
T_image_st == LET f == Box(Typed(S_image, 2, "sig"), 10, 10, 150, 40)
              IN  [f EXCEPT !.has = @ \cup {"scale_mode", "trim"},
                            !.scale_mode = <<"S","t","r","e","t","c","h">>, !.trim = FALSE]
T_label    == [Typed(S_label, 1, "") EXCEPT
                   !.has = {"type", "page", "x", "y", "text", "size", "bold"},
                   !.x = 40, !.y = 800, !.text = "Vollmacht", !.size = 14, !.bold = TRUE]
T_line     == [Typed(S_line, 2, "") EXCEPT
                   !.has = {"type", "page", "x1", "y1", "x2", "y2", "width"},
                   !.x1 = 40, !.y1 = 90, !.x2 = 200, !.y2 = 90, !.width = 20]
T_rect     == Box([Typed(S_rect, 1, "") EXCEPT !.has = {"type", "page"}], 30, 30, 500, 700)
T_other    == Box(Typed(<<"S","i","g","n","a","t","u","r","e">>, 2, "person_name"), 100, 100, 200, 16)
T_notype   == Box(Without(Typed(<<>>, 1, "person_name"), "type"), 100, 650, 200, 16)

\* every recognized kind, complete or lacking one required geometry key
FieldPool ==
    {T_text, T_textarea, T_cb_from, T_cb_true, T_cb_false, T_cb_name, T_image, T_image_st,
     T_label, T_line, T_rect, T_other, T_notype}
    \cup {Without(T_text, "w"), Without(T_textarea, "h"), Without(T_cb_name, "y"),
          Without(T_image, "x"), Without(T_rect, "h"), Without(T_label, "x"),
          Without(T_line, "y2")}

Png300x100 == PyBytes(TRUE, 300, 100, 300, 100)     \* opaque: the alpha box is the image
PngInk     == PyBytes(TRUE, 40, 40, 20, 5)          \* ink on a transparent ground
Corrupt    == PyBytes(FALSE, 0, 0, 0, 0)
PngMargin  == PyRgbBytes(300, 100, 100, 50)            \* no alpha channel: ink on white

\* a ValueMap: each key is missing or bound to one of a few values
MapOf(name, agree, sig) ==
    [k \in {x \in {"person_name", "agree", "sig"} :
               \/ x = "person_name" /\ name # <<>>
               \/ x = "agree" /\ agree # <<>>
               \/ x = "sig" /\ sig # <<>>}
       |-> CASE k = "person_name" -> name[1] [] k = "agree" -> agree[1] [] k = "sig" -> sig[1]]

Jane == <<PyStr(<<"J","a","n","e"," ","D","o","e">>)>>

DataSet ==
    { MapOf(<<>>, <<>>, <<>>),
      MapOf(Jane, <<PyStr(<<"X">>)>>, <<Png300x100>>),
      MapOf(<<>>, <<PyStr(<<"n","o">>)>>, <<Corrupt>>),
      MapOf(Jane, <<>>, <<PngInk>>),
      MapOf(<<>>, <<PyStr(<<"X">>)>>, <<>>),
      MapOf(Jane, <<PyStr(<<"n","o">>)>>, <<PngMargin>>) }

SeqsUpTo(S, n) == UNION {[1..k -> S] : k \in 0..n}

Init ==
    /\ layout \in [fields : SeqsUpTo(FieldPool, MaxFields),
                   backgrounds : {<<"ok">>, <<"bad">>}, draw_boxes : {TRUE}]
    /\ data \in DataSet
    /\ run = [m \in BOOLEAN |-> Run0]
    /\ IdleBool /\ IdleFit /\ IdleAuto /\ IdleBuild /\ IdleApp

Spec == Init /\ [][Next]_vars

\* --- the layout documents of the paging specification: a complete text
\* field on any page or with no page key, a label, any background list
PagedPool ==
    {[T_text EXCEPT !.page = p] : p \in 1..MaxPage}
    \cup {Without(T_text, "page"), [T_label EXCEPT !.page = 2]}

InitPaging ==
    /\ layout \in [fields : SeqsUpTo(PagedPool, MaxPaged),
                   backgrounds : SeqsUpTo({"ok", "bad"}, MaxBg), draw_boxes : BOOLEAN]
    /\ data = MapOf(Jane, <<>>, <<>>)
    /\ run = [m \in BOOLEAN |-> Run0]
    /\ IdleBool /\ IdleFit /\ IdleAuto /\ IdleBuild /\ IdleApp

SpecPaging == InitPaging /\ [][Next]_vars

(***************************************************************************)
(* Specification of build_interactive_pdf: the layout file of the form     *)
(* decides which renderer runs                                             *)
(***************************************************************************)
MaxSections == 2    \* sections of a Schema

\* --- the Schemas
Fld(key, type, label_i18n) ==
    [has |-> {"key", "type", "label_i18n"}, key |-> key, type |-> type, label_i18n |-> label_i18n]
Sec(key, title_i18n, fields) ==
    [has |-> {"key", "title_i18n", "fields"}, key |-> key, title_i18n |-> title_i18n,
     fields |-> fields]

F_name   == Fld("name", S_text, "lbl.title")
F_notes  == Fld("notes", <<"T","e","x","t","a","r","e","a">>, "lbl.none")
F_agree  == Without(Fld("agree", <<"b","o","o","l">>, ""), "label_i18n")
F_sig    == Without(Fld("sig", <<"s","i","g","n","a","t","u","r","e">>, ""), "label_i18n")
F_notype == Without(Fld("city", <<>>, "lbl.city"), "type")

Sec_person == Sec("person", "sec.person", <<F_name, F_notes>>)
Sec_opts   == Without(Sec("opts", "", <<F_agree, F_sig, F_notype>>), "title_i18n")
Sec_nokey  == Without(Sec("", "sec.none", <<F_name>>), "key")
Sec_bare   == Without(Sec("bare", "sec.none", <<>>), "fields")

SectionPool == {Sec_person, Sec_opts, Sec_nokey, Sec_bare}

Schemas ==
    [sections : SeqsUpTo(SectionPool, MaxSections),
     misc : {{}, {"stadt_default"}, {"date_placeholder", "title"}, {"title"}}]

\* --- the ValueMaps, keyed by composite names
D_full ==
    [k \in {"person_name", "person_notes", "opts_agree", "opts_sig", "stadt", "datum"} |->
        CASE k = "person_name"  -> PyStr(<<"J","a","n","e"," ","D","o","e">>)
          [] k = "person_notes" -> PyStr(<<"a", "\n", "b">>)
          [] k = "opts_agree"   -> PyStr(<<"J","a">>)
          [] k = "opts_sig"     -> PyStr(<<"J","D">>)
          [] k = "stadt"        -> PyStr(<<"B","o","n","n">>)
          [] OTHER              -> PyStr(<<"1",".","1",".">>)]
D_falsy ==
    [k \in {"person_name", "opts_agree", "stadt"} |->
        CASE k = "person_name" -> PyNone
          [] k = "opts_agree"  -> PyBool(FALSE)
          [] OTHER             -> PyInt(0)]

BuildData == {EmptyMap, D_full, D_falsy}

\* what the form obdachlosigkeit is filled with
D_obdach ==
    [k \in {"person_name", "person_has_relatives", "erst_checked", "erst_gruende",
            "datum", "signature_bytes"} |->
        CASE k = "person_name"          -> Jane[1]
          [] k = "person_has_relatives" -> PyStr(<<"j","a">>)
          [] k = "erst_checked"         -> PyBool(TRUE)
          [] k = "erst_gruende"         -> PyStr(<<"a","\n","b">>)
          [] k = "datum"                -> PyNone
          [] OTHER                      -> PngInk]
D_nosig == [k \in {"person_has_relatives", "signature_bytes"} |->
               IF k = "signature_bytes" THEN PyNoBytes ELSE PyStr(<<"n","e","i","n">>)]
D_badsig == [k \in {"signature_bytes"} |-> PyBytes(FALSE, 0, 0, 0, 0)]

\* person_has_relatives as the checkbox and a text widget deliver it
D_rel(v) == [k \in {"person_has_relatives", "person_relatives_text"} |->
                IF k = "person_has_relatives" THEN v ELSE PyStr(<<" ","T","o","m"," ">>)]

ObdachData ==
    {EmptyMap, D_obdach, D_nosig, D_badsig, D_falsy}
    \cup {D_rel(v) : v \in {PyBool(TRUE), PyBool(FALSE), PyNone, PyInt(1),
                            PyStr(<<" ","X"," ">>), PyStr(<<>>)}}

\* --- the LayoutDocuments
T_label_tr   == [T_label EXCEPT !.has = @ \cup {"text_i18n"}, !.text_i18n = "lbl.title"]
T_label_untr == [T_label EXCEPT !.has = @ \cup {"text_i18n"}, !.text_i18n = "lbl.none"]
T_text_tr    == [T_text EXCEPT !.has = @ \cup {"label_i18n"}, !.label_i18n = "lbl.title"]
T_text_untr  == [T_text EXCEPT !.has = @ \cup {"label_i18n"}, !.label_i18n = "lbl.none"]

\* a checkbox whose literal `checked` is the string "no"
T_cb_no      == LET f == Box(Typed(S_checkbox, 1, "agree"), 50, 340, 12, 12)
                IN  [f EXCEPT !.has = @ \cup {"checked"}, !.checked = PyStr(<<"n","o">>)]

BuildPool ==
    {T_text, T_textarea, T_other, T_notype, T_label_tr, T_label_untr, T_text_tr, T_text_untr,
     T_cb_no, Without(T_text, "w")}

Forms ==
    {[entry |-> "build_interactive_pdf", key |-> FALSE, file |-> "document"]}
    \cup [entry : {"build_interactive_pdf"}, key : {TRUE},
          file : {"missing", "unreadable", "unparsable", "empty", "document"}]
    \cup [entry : {"build_pdf_interactive_obdachlosigkeit", "build_pdf"}, key : {FALSE},
          file : {"missing"}]

InitBuild ==
    /\ form \in Forms
    /\ \/ /\ Generic /\ UsesLayout
          /\ data \in BuildData
          /\ layout \in [fields : SeqsUpTo(BuildPool, MaxFields), backgrounds : {<<"ok">>},
                         draw_boxes : {TRUE}]
          /\ schema \in {Schema0, [sections |-> <<Sec_person>>, misc |-> {"stadt_default"}]}
       \/ /\ Generic /\ ~UsesLayout
          /\ data \in BuildData
          /\ layout = [fields |-> <<T_text>>, backgrounds |-> <<"ok">>, draw_boxes |-> TRUE]
          /\ schema \in Schemas
       \/ /\ ~Generic
          /\ data \in ObdachData
          /\ layout = [fields |-> <<T_text>>, backgrounds |-> <<"ok">>, draw_boxes |-> TRUE]
          /\ schema = Schema0
    /\ run = [m \in BOOLEAN |-> Run0]
    /\ \E t \in {36, 740} :
           srun = [m \in BOOLEAN |->
                      [SRun0 EXCEPT !.flatten = m, !.top = t, !.has_misc = HasPlaceDate(schema)]]
    /\ IdleBool /\ IdleFit /\ IdleAuto /\ IdleApp

NextBuild ==
    \/ Begin \/ Field \/ Save
    \/ SBegin \/ SSection \/ SField \/ SEndSection \/ STrailer \/ SSave
    \/ Obdach \/ ObdachStatic

SpecBuild == InitBuild /\ [][NextBuild]_vars

(***************************************************************************)
(* Specification of app.py: one submit of the form.  `form.file` is the    *)
(* file forms/<key>/layout.json, sub.ib the file                           *)
(* forms/<key>/interactive_builder.py.                                     *)
(***************************************************************************)
\* _render_by_layout_json over the whole field list
RECURSIVE RenderAll(_, _)
RenderAll(r, flatten) ==
    IF r.pc = "render" /\ r.i <= Len(Fields) THEN RenderAll(RenderField(r, flatten), flatten)
    ELSE r

\* build_interactive_pdf(schema, i18n, ..., form_key=f.key, form_data, flatten):
\* "bytes" when it returns, "raised" when its renderer raises
build_interactive_pdf(f, flatten) ==
    IF read_layout(f) = "document"
    THEN IF RenderAll(BeginRun(Run0), flatten).pc = "render" THEN "bytes" ELSE "raised"
    ELSE IF \A k \in 1..Len(Sections) :
                "key" \in Sections[k].has \/ SectionFields(Sections[k]) = <<>>
         THEN "bytes" ELSE "raised"

\* build_interactive_pdf_for_form(current, schema, i18n_pdf, pdf_options,
\* form_data, flatten): the builder it calls and what comes back
build_interactive_pdf_for_form_mut(s, f, flatten) ==
    IF f.file # "missing"
    THEN [by |-> "build_interactive_pdf",
          res |-> build_interactive_pdf([f EXCEPT !.key = TRUE], flatten)]
    ELSE IF s.ib = "function"
    THEN [by |-> "build_pdf_interactive_<key>", res |-> "bytes"]
    ELSE [by |-> "", res |-> "none"]
build_interactive_pdf_for_form(s, f, flatten) ==
    IF s.ib = "function"
    THEN [by |-> "build_pdf_interactive_<key>", res |-> "bytes"]
    ELSE IF f.file # "missing"
    THEN [by |-> "build_interactive_pdf",
          res |-> build_interactive_pdf([f EXCEPT !.key = TRUE], flatten)]
    ELSE [by |-> "", res |-> "none"]

\* `if submitted:` errs = validate_required(...); st.error on errors
Validate ==
    /\ sub.pc = "submitted"
    /\ sub' = [sub EXCEPT !.pc = IF sub.errs THEN "rejected" ELSE "validated"]
    /\ UNCHANGED <<bIn, bOut, fIn, fOut, layout, data, run, auto, form, schema, srun, sess, flow>>

\* `if make_interactive or print_flat:` the call of
\* build_interactive_pdf_for_form; an exception of the builder leaves the script
Interactive ==
    /\ sub.pc = "validated" /\ (sub.make_interactive \/ sub.print_flat)
    /\ LET r == build_interactive_pdf_for_form(sub, form, sub.print_flat)
       IN  sub' = [sub EXCEPT !.calls = IF r.by = "" THEN @ ELSE Append(@, r.by),
                              !.pdf_bytes = IF r.res = "raised" THEN @ ELSE r.res,
                              !.pc = CASE r.res = "raised" -> "raised"
                                       [] r.res = "none"   -> "fallback"
                                       [] OTHER            -> "built"]
    /\ UNCHANGED <<bIn, bOut, fIn, fOut, layout, data, run, auto, form, schema, srun, sess, flow>>

\* `if pdf_bytes is None:` pdf_bytes = current.builder.build_pdf(...)
Fallback ==
    /\ sub.pc = "fallback"
    /\ sub' = [sub EXCEPT !.calls = Append(@, "build_pdf"), !.pdf_bytes = "bytes",
                          !.pc = "built"]
    /\ UNCHANGED <<bIn, bOut, fIn, fOut, layout, data, run, auto, form, schema, srun, sess, flow>>

\* neither option ticked: pdf_bytes = current.builder.build_pdf(...)
Static ==
    /\ sub.pc = "validated" /\ ~(sub.make_interactive \/ sub.print_flat)
    /\ sub' = [sub EXCEPT !.calls = Append(@, "build_pdf"), !.pdf_bytes = "bytes",
                          !.pc = "built"]
    /\ UNCHANGED <<bIn, bOut, fIn, fOut, layout, data, run, auto, form, schema, srun, sess, flow>>

\* st.success and the download button with the bytes
Download ==
    /\ sub.pc = "built"
    /\ sub' = [sub EXCEPT !.pc = "done",
                          !.dl_suffix = (IF sub.make_interactive THEN "-interactive" ELSE "")
                                        \o (IF sub.print_flat THEN "-print" ELSE ""),
                          !.download = sub.pdf_bytes]
    /\ UNCHANGED <<bIn, bOut, fIn, fOut, layout, data, run, auto, form, schema, srun, sess, flow>>

SubmitLayouts ==
    {[fields |-> fs, backgrounds |-> <<"ok">>, draw_boxes |-> TRUE] :
        fs \in {<<>>, <<T_text>>, <<T_label, T_cb_true>>, <<T_text, Without(T_image, "x")>>,
                <<Without(T_text, "w")>>}}

InitSubmit ==
    /\ sub \in [pc : {"submitted"}, ib : {"missing", "no_function", "function"},
                make_interactive : BOOLEAN, print_flat : BOOLEAN, errs : BOOLEAN,
                calls : {<<>>}, pdf_bytes : {"unset"}, dl_suffix : {""}, download : {"unset"}]
    /\ form \in [entry : {"build_interactive_pdf"}, key : {TRUE},
                 file : {"missing", "unreadable", "unparsable", "empty", "document"}]
    /\ layout \in SubmitLayouts
    /\ data = D_full
    /\ schema = [sections |-> <<Sec_person>>, misc |-> {"stadt_default"}]
    /\ run = [m \in BOOLEAN |-> Run0]
    /\ srun = [m \in BOOLEAN |-> SRun0]
    /\ IdleBool /\ IdleFit /\ IdleAuto /\ IdleSess /\ IdleFlow

NextSubmit == Validate \/ Interactive \/ Fallback \/ Static \/ Download

SpecSubmit == InitSubmit /\ [][NextSubmit]_vars

(***************************************************************************)
(* Specification of modules/signature.py: the session state over the runs  *)
(* of draw_signature_ui.  Stored bytes are a record [len, ok, w, h] (ok:    *)
(* PIL can open them as a w x h image) and None is NoSignature; a source   *)
(* is "draw", "upload" or "None"; a size is <<w, h>>, <<>> stands for None *)
(* and <<-1, -1>> for the pair (None, None).                               *)
(***************************************************************************)
NoSignature == [len |-> -1, ok |-> FALSE, w |-> 0, h |-> 0]
NoMeta == [source |-> "None", size_px |-> <<>>]

\* st.session_state.get("signature_meta", default)
StateMeta(s, default) == IF "signature_meta" \in s.keys THEN s.signature_meta ELSE default

\* get_signature_bytes() and get_signature_meta()
get_signature_bytes(s) == IF "signature_bytes" \in s.keys THEN s.signature_bytes ELSE NoSignature
get_signature_meta(s) == StateMeta(s, NoMeta)

\* set_signature(signature)
set_signature(s, signature) ==
    [s EXCEPT !.keys = @ \cup {"signature_bytes"}, !.signature_bytes = signature]

\* set_signature_meta(source, size_px): an argument that is None keeps what
\* the session holds
set_signature_meta(s, source, size_px) ==
    [s EXCEPT !.keys = @ \cup {"signature_meta"},
              !.signature_meta =
                  [source  |-> IF source # "None" THEN source
                               ELSE StateMeta(s, NoMeta).source,
                   size_px |-> IF size_px # <<>> THEN size_px
                               ELSE StateMeta(s, NoMeta).size_px]]

\* the canvas of the draw mode: 400 x 120, saved as PNG
CanvasPng == [len |-> 1, ok |-> TRUE, w |-> 400, h |-> 120]

\* the files a user uploads: pictures, a file PIL cannot open, an empty file
Uploads ==
    {[len |-> 1, ok |-> TRUE, w |-> 300, h |-> 100], [len |-> 1, ok |-> TRUE, w |-> 50, h |-> 80],
     [len |-> 1, ok |-> FALSE, w |-> 0, h |-> 0], [len |-> 0, ok |-> FALSE, w |-> 0, h |-> 0]}

\* the Clear button, in either mode
ui_clear(s) == set_signature_meta(set_signature(s, NoSignature), "None", <<>>)

\* draw_signature_ui(i18n): one run of the script with the widgets as they
\* are (s.mode the radio, s.drawn the canvas, s.uploaded the uploader) and
\* the button clicked in this run ("accept", "clear" or "")
draw_signature_ui(s, click) ==
    LET s0 == [s EXCEPT !.keys = @ \cup {"signature_bytes", "signature_meta"},
                        !.signature_bytes = get_signature_bytes(s),
                        !.signature_meta = get_signature_meta(s)]
        s1 == IF s.mode = "draw"
              THEN IF click = "accept"
                   THEN IF s.drawn
                        THEN set_signature_meta(set_signature(s0, CanvasPng), "draw",
                                                <<CanvasPng.w, CanvasPng.h>>)
                        ELSE s0
                   ELSE IF click = "clear" THEN ui_clear(s0)
                   ELSE s0
              ELSE LET up == IF s.uploaded # NoSignature
                             THEN set_signature_meta(
                                      set_signature(s0, s.uploaded), "upload",
                                      IF s.uploaded.ok THEN <<s.uploaded.w, s.uploaded.h>>
                                      ELSE <<-1, -1>>)
                             ELSE s0
                   IN  IF click = "clear" THEN ui_clear(up) ELSE up
    IN  [s1 EXCEPT !.last = click, !.preview = (s1.signature_bytes.len > 0)]

\* the user draws on the canvas: the script runs again
Stroke ==
    /\ sess.mode = "draw"
    /\ sess' = draw_signature_ui([sess EXCEPT !.drawn = TRUE], "")
    /\ UNCHANGED <<bIn, bOut, fIn, fOut, layout, data, run, auto, form, schema, srun, sub, flow>>

\* the user switches the radio; the widgets of the other mode keep or lose
\* what they held
SwitchMode ==
    /\ \E keep \in BOOLEAN :
           sess' = draw_signature_ui(
                       [sess EXCEPT !.mode = IF @ = "draw" THEN "upload" ELSE "draw",
                                    !.drawn = keep /\ @,
                                    !.uploaded = IF keep THEN @ ELSE NoSignature], "")
    /\ UNCHANGED <<bIn, bOut, fIn, fOut, layout, data, run, auto, form, schema, srun, sub, flow>>

\* "Accept drawn signature" clicked
AcceptDrawn ==
    /\ sess.mode = "draw"
    /\ sess' = draw_signature_ui(sess, "accept")
    /\ UNCHANGED <<bIn, bOut, fIn, fOut, layout, data, run, auto, form, schema, srun, sub, flow>>

\* "Clear" clicked, in either mode
Clear ==
    /\ sess' = draw_signature_ui(sess, "clear")
    /\ UNCHANGED <<bIn, bOut, fIn, fOut, layout, data, run, auto, form, schema, srun, sub, flow>>

\* the user puts a file into the uploader, or takes it out
ChooseFile ==
    /\ sess.mode = "upload"
    /\ \E file \in Uploads \cup {NoSignature} :
           sess' = draw_signature_ui([sess EXCEPT !.uploaded = file], "")
    /\ UNCHANGED <<bIn, bOut, fIn, fOut, layout, data, run, auto, form, schema, srun, sub, flow>>

\* the first run of the script shows the draw mode
InitSess ==
    /\ sess = Sess0
    /\ IdleBool /\ IdleFit /\ IdleRender /\ IdleAuto /\ IdleBuild /\ IdleSub /\ IdleFlow

NextSess == Stroke \/ SwitchMode \/ AcceptDrawn \/ Clear \/ ChooseFile

SpecSess == InitSess /\ [][NextSess]_vars

(***************************************************************************)
(* Specification of form_to_pdf.schema_to_interactive_pdf: the sections    *)
(* and fields of a schema are placed by a FlowLayout.  Lengths are in      *)
(* units of 1/127 pt, in which a millimetre (72/25.4 pt) and a point are   *)
(* whole numbers.                                                          *)
(***************************************************************************)
mm == 360                   \* reportlab.lib.units.mm
PT == 127                   \* one point
MaxFlowFields == 2          \* fields of a section

\* LayoutSpec: the defaults of the keys the schemas below leave out
gutter_mm       == 8
label_width_mm  == 40
row_gap_mm      == 4
section_gap_mm  == 8
headline_gap_mm == 6

\* PageSpec.pagesize(): A4 = (210 mm, 297 mm)
pagesize == <<210 * mm, 297 * mm>>

\* FlowLayout.__init__: the frame and the columns
flow_left   == schema.page.margins_mm[1] * mm
flow_right  == pagesize[1] - schema.page.margins_mm[2] * mm
flow_top    == pagesize[2] - schema.page.margins_mm[3] * mm
flow_bottom == schema.page.margins_mm[4] * mm
col_w ==
    ((flow_right - flow_left) - (schema.layout.columns - 1) * (gutter_mm * mm))
        \div schema.layout.columns
col_x(i) == flow_left + i * (col_w + gutter_mm * mm)

\* FlowLayout.next_column: the next column, or the first one a row lower;
\* the rows are field_height_mm high whatever the height of the field was
next_column(fl) ==
    IF fl.current_col + 1 >= schema.layout.columns
    THEN [fl EXCEPT !.current_col = 0,
                    !.cursor_y = @ - (schema.layout.field_height_mm * mm + row_gap_mm * mm)]
    ELSE [fl EXCEPT !.current_col = @ + 1]

\* rows = int(fld.get("rows", 0) or (4 if ftype == "textarea" else 0))
FlowRows(fld) == IF fld.rows # 0 THEN fld.rows ELSE IF fld.type = "textarea" THEN 4 ELSE 0

\* field_h_mm = layout.field_height_mm * (rows if rows > 0 else 1)
field_h_mm(fld) ==
    schema.layout.field_height_mm * (IF FlowRows(fld) > 0 THEN FlowRows(fld) ELSE 1)

\* the AcroForm call of a field type on the box (fx, fy, fw, fh)
FlowWidget(fld, key, fx, fy, fw, fh) ==
    LET o == [Op0 EXCEPT !.live = TRUE, !.kind = fld.type, !.name = key, !.x = fx,
                         !.y = fy, !.w = fw, !.h = fh]
    IN  CASE fld.type = "textarea" ->
                 [o EXCEPT !.op = "acroForm.textfield", !.n = FF_MULTILINE]
          [] fld.type = "checkbox" ->
                 LET box_size == IF fh < 12 * PT THEN fh ELSE 12 * PT
                 IN  [o EXCEPT !.op = "acroForm.checkbox", !.x = fx + 2 * PT,
                               !.y = fy + 2 * PT, !.w = box_size, !.h = box_size]
          [] OTHER -> [o EXCEPT !.op = "acroForm.textfield"]

\* FlowLayout.place_label_and_field and the widget put into the box it
\* returns: label at the cursor, the box next to it reaching down from
\* 6 pt above the cursor, then next_column
place_label_and_field(fl, sec, fld) ==
    LET x       == col_x(fl.current_col)
        y       == fl.cursor_y
        f_w     == col_w - label_width_mm * mm - 4 * mm
        f_h     == field_h_mm(fld) * mm
        fx      == x + label_width_mm * mm + 2 * mm
        fy      == y - (f_h - 6 * PT)
        key     == sec.key \o "." \o fld.key
        page    == fl.shown + 1
        lbl     == [Op0 EXCEPT !.op = "drawString", !.kind = "caption", !.x = x, !.y = y,
                               !.txt = fld.key, !.page = page,
                               !.font = [name |-> "Helvetica", size |-> 9]]
        box     == [Op0 EXCEPT !.op = "rect", !.kind = fld.type, !.name = key, !.x = fx,
                               !.y = fy, !.w = f_w, !.h = f_h, !.page = page]
        wid     == [FlowWidget(fld, key, fx, fy, f_w, f_h) EXCEPT !.page = page]
    IN  next_column([fl EXCEPT !.ops = @ \o <<lbl, box, wid>>])

CurSection == schema.sections[flow.si]

\* the canvas, the title, the FlowLayout and the cursor under the headline
FBegin ==
    /\ flow.pc = "ready"
    /\ flow' = [flow EXCEPT
                   !.pc = "section",
                   !.ops = IF schema.title # ""
                           THEN <<[Op0 EXCEPT !.op = "drawCentredString", !.kind = "title",
                                              !.x = pagesize[1] \div 2,
                                              !.y = pagesize[2] - schema.page.margins_mm[3] * mm,
                                              !.txt = schema.title, !.page = 1,
                                              !.font = [name |-> "Helvetica-Bold",
                                                        size |-> 14]]>>
                           ELSE <<>>,
                   !.current_col = 0,
                   !.cursor_y = flow_top - headline_gap_mm * mm - 6 * PT]
    /\ UNCHANGED <<bIn, bOut, fIn, fOut, layout, data, run, auto, form, schema, srun, sub, sess>>

\* the head of a section: its title, when it has one, and the gap under it
FSection ==
    /\ flow.pc = "section" /\ flow.si <= Len(schema.sections)
    /\ LET sec_title == IF CurSection.title # "" THEN CurSection.title ELSE CurSection.key
       IN  flow' = IF sec_title # ""
                   THEN [flow EXCEPT
                            !.pc = "fields", !.fi = 1,
                            !.ops = @ \o <<[Op0 EXCEPT !.op = "drawString", !.kind = "section",
                                                       !.x = col_x(0), !.y = flow.cursor_y,
                                                       !.txt = sec_title,
                                                       !.page = flow.shown + 1,
                                                       !.font = [name |-> "Helvetica-Bold",
                                                                 size |-> 11]]>>,
                            !.cursor_y = @ - (schema.layout.field_height_mm * mm
                                              + section_gap_mm * mm)]
                   ELSE [flow EXCEPT !.pc = "fields", !.fi = 1]
    /\ UNCHANGED <<bIn, bOut, fIn, fOut, layout, data, run, auto, form, schema, srun, sub, sess>>

\* one field of the section
FField ==
    /\ flow.pc = "fields" /\ flow.fi <= Len(CurSection.fields)
    /\ flow' = [place_label_and_field(flow, CurSection, CurSection.fields[flow.fi])
                   EXCEPT !.fi = @ + 1]
    /\ UNCHANGED <<bIn, bOut, fIn, fOut, layout, data, run, auto, form, schema, srun, sub, sess>>

\* the gap after the last field of a section
FEndSection ==
    /\ flow.pc = "fields" /\ flow.fi > Len(CurSection.fields)
    /\ flow' = [flow EXCEPT !.pc = "section", !.si = @ + 1,
                            !.cursor_y = @ - section_gap_mm * mm]
    /\ UNCHANGED <<bIn, bOut, fIn, fOut, layout, data, run, auto, form, schema, srun, sub, sess>>

\* the footer line under the bottom margin and c.save()
FSave ==
    /\ flow.pc = "section" /\ flow.si > Len(schema.sections)
    /\ flow' = [flow EXCEPT
                   !.pc = "saved", !.saves = @ + 1,
                   !.ops = @ \o <<[Op0 EXCEPT !.op = "drawRightString", !.kind = "footer",
                                              !.x = flow_right, !.y = flow_bottom - 6 * PT,
                                              !.page = flow.shown + 1,
                                              !.font = [name |-> "Helvetica", size |-> 7]]>>]
    /\ UNCHANGED <<bIn, bOut, fIn, fOut, layout, data, run, auto, form, schema, srun, sub, sess>>

\* --- the schemas: default and wide margins, one or two columns, low and
\* high rows, sections with and without a title
FlowFields ==
    {[key |-> "name", type |-> "text", rows |-> 0],
     [key |-> "notes", type |-> "textarea", rows |-> 0],
     [key |-> "agree", type |-> "checkbox", rows |-> 0],
     [key |-> "more", type |-> "text", rows |-> 2]}

FlowSections ==
    [title : {"Person"}, key : {"person"}, fields : SeqsUpTo(FlowFields, MaxFlowFields)]
    \cup {[title |-> "", key |-> "", fields |-> <<[key |-> "name", type |-> "text", rows |-> 0]>>]}

InitFlow ==
    /\ schema \in [page : [margins_mm : {<<15, 15, 15, 15>>, <<10, 10, 20, 30>>}],
                   layout : [columns : {1, 2}, field_height_mm : {8, 40}],
                   title : {"", "Antrag"},
                   sections : SeqsUpTo(FlowSections, 2)]
    /\ flow = [Flow0 EXCEPT !.pc = "ready"]
    /\ IdleBool /\ IdleFit /\ IdleRender /\ IdleAuto
    /\ form = Form0 /\ srun = [m \in BOOLEAN |-> SRun0]
    /\ IdleSub /\ IdleSess

NextFlow == FBegin \/ FSection \/ FField \/ FEndSection \/ FSave

SpecFlow == InitFlow /\ [][NextFlow]_vars

(***************************************************************************)
(* Specification of the boolean coercion: one call on one ValueMap entry   *)
(***************************************************************************)
WsSeqs == UNION {[1..k -> Whitespace] : k \in 0..MaxPad}

BoolWords == TruthyWords \cup {
    <<>>, <<"0">>, <<"n","o">>, <<"f","a","l","s","e">>, <<"n","e","i","n">>,
    <<"x","x">>, <<"o"," ","n">>, <<"y","e","s","s">>, <<"N","o","n","e">> }

Capitalize(s) == [i \in 1..Len(s) |-> IF i = 1 THEN UpperChar(s[i]) ELSE s[i]]
AllUpper(s)   == [i \in 1..Len(s) |-> UpperChar(s[i])]

BoolValues ==
    {PyNone, PyBool(TRUE), PyBool(FALSE), PyInt(0), PyInt(1), PyInt(2), PyInt(10), PyNoBytes}
    \cup {PyStr(l \o c \o r) : l \in WsSeqs, r \in WsSeqs,
                                c \in UNION {{w, Capitalize(w), AllUpper(w)} : w \in BoolWords}}

BoolMaps == {EmptyMap} \cup {[k \in {"k"} |-> v] : v \in BoolValues}


InitBool ==
    /\ bIn \in BoolMaps
    /\ bOut = [done |-> FALSE, generic |-> FALSE, builder |-> FALSE, static |-> FALSE]
    /\ IdleFit /\ IdleRender /\ IdleAuto /\ IdleBuild /\ IdleApp

\* the three copies of the coercion applied to data.get("k")
ApplyBooly ==
    /\ ~bOut.done
    /\ bOut' = [done    |-> TRUE,
                generic |-> booly(DataGet(bIn, "k")),
                builder |-> booly_builder(DataGet(bIn, "k")),
                static  |-> bool_static(DataGet(bIn, "k"))]
    /\ UNCHANGED <<bIn, fIn, fOut, layout, data, run, auto, form, schema, srun, sub, sess, flow>>

NextBool == ApplyBooly

SpecBool == InitBool /\ [][NextBool]_vars

(***************************************************************************)
(* Specification of the image fitting: one call of each copy on one source *)
(* size and one box                                                        *)
(***************************************************************************)
S_Stretch == <<"S","t","r","e","t","c","h">>

FitInputs ==
    [mode : {S_fit, S_stretch, S_Stretch}, sw : 0..MaxSrc, sh : 0..MaxSrc,
     bw : 1..MaxBox, bh : 1..MaxBox]
    \cup {[mode |-> S_fit, sw |-> 300, sh |-> 100, bw |-> 150, bh |-> 40]}

InitFit ==
    /\ fIn \in FitInputs
    /\ fOut = <<>>
    /\ IdleBool /\ IdleRender /\ IdleAuto /\ IdleBuild /\ IdleApp

ApplyFit ==
    /\ fOut = <<>>
    /\ fOut' = [layout   |-> FitLayout(Lower(fIn.mode), fIn.sw, fIn.sh, fIn.bw, fIn.bh),
                sigimage |-> FitSignatureImage(fIn.mode, fIn.sw, fIn.sh, fIn.bw, fIn.bh),
                sigblock |-> FitSignatureBlock(fIn.mode, fIn.sw, fIn.sh, fIn.bw, fIn.bh)]
    /\ UNCHANGED <<fIn, bIn, bOut, layout, data, run, auto, form, schema, srun, sub, sess, flow>>

NextFit == ApplyFit

SpecFit == InitFit /\ [][NextFit]_vars

(***************************************************************************)
(* C6                                                                      *)
(***************************************************************************)
C6_Words == {
    <<"1">>, <<"t","r","u","e">>, <<"j","a">>, <<"y","e","s">>, <<"y">>,
    <<"o","n">>, <<"x">>, <<"U+2713">>, <<"c","h","e","c","k","e","d">> }

\* C6: the coercion is true exactly when the trimmed, lower-cased string form
\* of the value is one of the nine accepted words (so false for '', '0',
\* 'no', None and a missing entry), and the three copies agree.
C6_BoolCoercion ==
    bOut.done =>
        LET v == DataGet(bIn, "k")
        IN  /\ bOut.generic = (Lower(Strip(StrOf(v))) \in C6_Words)
            /\ bOut.builder = bOut.generic
            /\ bOut.static  = bOut.generic
            /\ (v = PyNone \/ v \in {PyStr(<<>>), PyStr(<<"0">>), PyStr(<<"n","o">>)})
                   => ~bOut.generic

\* a padded upper-case 'JA' has been coerced to true
C6_Witness ==
    /\ bOut.done /\ bOut.generic
    /\ DataGet(bIn, "k") = PyStr(<<" ", "J", "A", "\n">>)

(***************************************************************************)
(* C7                                                                      *)
(***************************************************************************)
FitProps(o) ==
    /\ FLe(o.dw, FInt(fIn.bw))
    /\ FLe(o.dh, FInt(fIn.bh))
    /\ FEq(FMul(o.dw, FInt(fIn.sh)), FMul(o.dh, FInt(fIn.sw)))
    /\ (FEq(o.dw, FInt(fIn.bw)) \/ FEq(o.dh, FInt(fIn.bh)))

\* C7: for every source size >= 1 and every box, 'fit' stays inside the box,
\* keeps the aspect ratio exactly and touches one side of the box; 'stretch'
\* gives the box; a 300x100 source in a 150x40 box gives 120x40.
C7_FitInvariant ==
    fOut # <<>> =>
        \A o \in {fOut.layout, fOut.sigimage, fOut.sigblock} :
            /\ (fIn.mode = S_fit /\ fIn.sw >= 1 /\ fIn.sh >= 1) => FitProps(o)
            /\ fIn.mode = S_stretch =>
                   (FEq(o.dw, FInt(fIn.bw)) /\ FEq(o.dh, FInt(fIn.bh)))
            /\ fIn = [mode |-> S_fit, sw |-> 300, sh |-> 100, bw |-> 150, bh |-> 40] =>
                   (FEq(o.dw, FInt(120)) /\ FEq(o.dh, FInt(40)))

\* the 300x100 source has been fitted into the 150x40 box, height-bound
C7_Witness ==
    /\ fOut # <<>>
    /\ fIn = [mode |-> S_fit, sw |-> 300, sh |-> 100, bw |-> 150, bh |-> 40]
    /\ FEq(fOut.layout.dh, FInt(fIn.bh)) /\ ~FEq(fOut.layout.dw, FInt(fIn.bw))

(***************************************************************************)
(* C8                                                                      *)
(***************************************************************************)
\* C8: in 'fit' mode a source of width 0 is fitted with aspect 1.0, giving
\* the largest square that fits the box, in every copy of the computation.
C8_ZeroWidthAspectOne ==
    (fOut # <<>> /\ fIn.mode = S_fit /\ fIn.sw = 0) =>
        \A o \in {fOut.layout, fOut.sigimage, fOut.sigblock} :
            /\ FEq(o.aspect, FInt(1))
            /\ FEq(o.dw, FInt(Min2(fIn.bw, fIn.bh)))
            /\ FEq(o.dh, FInt(Min2(fIn.bw, fIn.bh)))

(***************************************************************************)
(* C1                                                                      *)
(***************************************************************************)
PageOf(f) == FGet(f, "page", 1)

\* the highest page among the first k fields, and at least 1
HighestPage(k) ==
    LET ps == {1} \cup {PageOf(Fields[j]) : j \in 1..k}
    IN  CHOOSE p \in ps : \A q \in ps : q <= p

SortedByPage ==
    /\ \A j \in 1..Len(Fields) : PageOf(Fields[j]) >= 1
    /\ \A j \in 1..Len(Fields) - 1 : PageOf(Fields[j]) <= PageOf(Fields[j + 1])

C1_State(r) ==
    r.pc # "ready" =>
        /\ r.current_page >= 1
        /\ r.shown = r.current_page - 1
        /\ \A k \in 1..Len(r.ops) :
               /\ r.ops[k].page <= r.current_page
               /\ \A j \in 1..k : r.ops[j].page <= r.ops[k].page
               /\ r.ops[k].fld > 0 => r.ops[k].page = HighestPage(r.ops[k].fld)
        /\ (r.pc = "returned" /\ Fields # <<>> /\ SortedByPage) =>
               /\ r.npages = PageOf(Fields[Len(Fields)])
               /\ r.npages = HighestPage(Len(Fields))
               /\ r.shown = r.npages - 1
               /\ r.saves = 1

C1_Step(r, rn) ==
    /\ rn.current_page >= r.current_page
    /\ (r.pc = "ready" /\ rn.pc # "ready") => rn.current_page = 1
    /\ (r.pc = "render" /\ r.i <= Len(Fields) /\ PageOf(Fields[r.i]) <= r.current_page) =>
           (rn.current_page = r.current_page /\ rn.shown = r.shown)

\* C1: current_page starts at 1 and never decreases; a field of a lower page
\* causes no transition and is drawn on the current page; a non-empty list
\* sorted by page (pages >= 1) gives exactly max(page) pages: max(page)-1
\* showPage transitions and the last page closed by save.
C1_PageMonotonic ==
    /\ [](\A m \in BOOLEAN : C1_State(run[m]))
    /\ [][\A m \in BOOLEAN : C1_Step(run[m], run'[m])]_vars

\* a sorted list that skips a page has been rendered and saved
C1_Witness ==
    /\ run[TRUE].pc = "returned" /\ SortedByPage
    /\ Len(Fields) = 3
    /\ PageOf(Fields[1]) = 1 /\ PageOf(Fields[2]) = 1 /\ PageOf(Fields[3]) = 3
    /\ run[TRUE].npages = 3

(***************************************************************************)
(* C2                                                                      *)
(***************************************************************************)
IsBackground(o) == o.op = "drawImage" /\ o.kind = "background"

C2_State(r) ==
    r.pc # "ready" =>
        /\ \A k \in 1..Len(r.ops) : IsBackground(r.ops[k]) => r.ops[k].n = r.ops[k].page - 1
        /\ \A p \in 1..r.current_page :
               LET bgs == {k \in 1..Len(r.ops) : IsBackground(r.ops[k]) /\ r.ops[k].page = p}
                   on  == {k \in 1..Len(r.ops) : ~IsBackground(r.ops[k]) /\ r.ops[k].page = p}
               IN  /\ Cardinality(bgs) = IF p <= Len(layout.backgrounds) THEN 1 ELSE 0
                   /\ \A b \in bgs : \A k \in on : b < k

\* C2: for every page p begun, the background at index p-1 (when the list
\* has one) is drawn exactly once, after page p is begun and before anything
\* of page p is placed: page 1 before the first field, and the pages the
\* field list skips over.
C2_BackgroundPerPage == \A m \in BOOLEAN : C2_State(run[m])

\* page 2 carries its background although no field is on it
C2_Witness ==
    /\ run[FALSE].pc = "returned"
    /\ \E k \in 1..Len(run[FALSE].ops) :
           IsBackground(run[FALSE].ops[k]) /\ run[FALSE].ops[k].page = 2
    /\ \A k \in 1..Len(run[FALSE].ops) :
           run[FALSE].ops[k].page = 2 => IsBackground(run[FALSE].ops[k])
    /\ \E k \in 1..Len(run[FALSE].ops) :
           run[FALSE].ops[k].page = 3 /\ run[FALSE].ops[k].fld > 0

(***************************************************************************)
(* C3                                                                      *)
(***************************************************************************)
\* C3 as stated: for any schema, page height and margins, no row is drawn
\* with content below the bottom margin.
C3_NoRowBelowBottom ==
    auto.last.kind # "none" => auto.last.low >= auto.bottom

\* C3 as the code has it: before every row, a row that would not fit above
\* the bottom margin starts a new page and is drawn from page_h - top; no
\* row is drawn below the bottom margin when an empty page has room for it
\* (page_h - top - the height its check tests >= bottom).
C3_RowsAboveBottom ==
    LET row == auto.last
    IN  row.kind # "none" =>
            /\ row.broke = (row.y0 - row.check < auto.bottom)
            /\ row.y = IF row.broke THEN auto.page_h - auto.top ELSE row.y0
            /\ row.low >= row.y - row.check
            /\ (auto.page_h - auto.top - row.check >= auto.bottom) => row.low >= auto.bottom

\* a textarea that did not fit an A4 page was moved to the next page
C3_Witness ==
    /\ auto.page_h = A4_HEIGHT /\ auto.top = 36 /\ auto.bottom = 36
    /\ auto.last.kind = "textarea" /\ auto.last.broke
    /\ auto.last.y0 - line_h >= auto.bottom
    /\ auto.last.low >= auto.bottom

(***************************************************************************)
(* C4                                                                      *)
(***************************************************************************)
\* the one artifact that stands for a text, textarea, checkbox or image field
IsArtifact(o) ==
    /\ o.fld > 0
    /\ \/ o.kind = "text" /\ o.op \in {"drawString", "paragraph", "acroForm.textfield"}
       \/ o.kind = "checkbox" /\ o.op \in {"rect", "acroForm.checkbox"}
       \/ o.kind = "image" /\ o.op = "drawImage"

Artifacts(r) == SelectSeq(r.ops, IsArtifact)

SameArtifactSet(a, b) ==
    /\ Len(a) = Len(b)
    /\ \A k \in 1..Len(a) :
           /\ a[k].fld = b[k].fld /\ a[k].kind = b[k].kind /\ a[k].page = b[k].page
           /\ ~a[k].live
           /\ b[k].live = (b[k].kind # "image")

\* C4 as stated: the flatten and the interactive render emit the same number
\* of field artifacts, on the same pages, at the same coordinates.
C4_SameCoordinates ==
    LET a == Artifacts(run[TRUE])
        b == Artifacts(run[FALSE])
    IN  /\ SameArtifactSet(a, b)
        /\ \A k \in 1..Len(a) : a[k].x = b[k].x /\ a[k].y = b[k].y

\* C4 as the code has it: the same number of field artifacts, on the same
\* pages, each placed from the same declared box: checkbox squares and images
\* at the same origin and size, a flattened text string at (x+1, y+h-12) and
\* a flattened textarea paragraph at (x+1, y+1) wrapped to (w-2, h-2) of the
\* interactive field's box (x, y, w, h).
C4_SameBoxes ==
    LET a == Artifacts(run[TRUE])
        b == Artifacts(run[FALSE])
    IN  /\ SameArtifactSet(a, b)
        /\ \A j \in 1..(run[FALSE].i - 1) :
               KindOf(Fields[j]) \notin {S_label, S_line, S_rect, S_image} =>
                   Cardinality({k \in 1..Len(a) : a[k].fld = j}) = 1
        /\ \A k \in 1..Len(a) :
               /\ a[k].kind = "checkbox" =>
                      (a[k].x = b[k].x /\ a[k].y = b[k].y /\ a[k].w = b[k].w /\ a[k].h = b[k].h)
               /\ a[k].kind = "image" =>
                      (a[k].x = b[k].x /\ a[k].y = b[k].y /\ a[k].dw = b[k].dw /\ a[k].dh = b[k].dh)
               /\ (a[k].kind = "text" /\ b[k].n = 0) =>
                      (a[k].op = "drawString" /\ a[k].x = b[k].x + 1 /\ a[k].y = b[k].y + b[k].h - 12)
               /\ (a[k].kind = "text" /\ b[k].n # 0) =>
                      (/\ a[k].op = "paragraph"
                       /\ a[k].x = b[k].x + 1 /\ a[k].y = b[k].y + 1
                       /\ a[k].w = b[k].w - 2 /\ a[k].h = b[k].h - 2)

\* a checkbox and an image have been rendered in both modes
C4_Witness ==
    /\ run[TRUE].pc = "returned" /\ run[FALSE].pc = "returned"
    /\ Len(Artifacts(run[TRUE])) = 2
    /\ Artifacts(run[TRUE])[1].kind = "checkbox" /\ Artifacts(run[FALSE])[1].live
    /\ Artifacts(run[TRUE])[2].kind = "image" /\ Artifacts(run[TRUE])[2].page = 2

(***************************************************************************)
(* C5                                                                      *)
(***************************************************************************)
Coerced(v) == Lower(Strip(StrOf(v))) \in C6_Words

C5_Expected(f) ==
    IF "checked_from" \in f.has THEN Coerced(DataGet(data, f.checked_from))
    ELSE IF "checked" \in f.has /\ f.checked # PyNone THEN Truthy(f.checked)
    ELSE Coerced(DataGet(data, IF "value_from" \in f.has /\ f.value_from # ""
                               THEN f.value_from ELSE f.name))

\* the check state the render gave field j: the interactive checkbox's
\* state, the presence of the check mark in the flattened one
LiveChecked(j) ==
    \E k \in 1..Len(run[FALSE].ops) :
        LET o == run[FALSE].ops[k]
        IN  o.fld = j /\ o.op = "acroForm.checkbox" /\ o.chk
FlatChecked(j) ==
    \E k \in 1..Len(run[TRUE].ops) :
        LET o == run[TRUE].ops[k]
        IN  o.fld = j /\ o.kind = "checkbox" /\ o.op = "drawString"

\* C5: a checkbox is checked by (a) the coercion of ValueMap[checked_from]
\* when the field has checked_from, else (b) the literal checked when there
\* is one, else (c) the coercion of ValueMap[value_from or name]; checked_from
\* wins over a literal, and checked_from 'agree' with {agree: 'X'} is checked.
C5_CheckedPriority ==
    \A j \in 1..Len(Fields) :
        (KindOf(Fields[j]) = S_checkbox /\ j < run[FALSE].i /\ j < run[TRUE].i) =>
            /\ LiveChecked(j) = C5_Expected(Fields[j])
            /\ FlatChecked(j) = C5_Expected(Fields[j])
            /\ (Fields[j] = T_cb_from /\ DataGet(data, "agree") = PyStr(<<"X">>)) => LiveChecked(j)

\* checked_from 'agree' with {agree: 'X'} beat the literal checked = false
C5_Witness ==
    /\ Len(Fields) >= 1 /\ Fields[1] = T_cb_from /\ T_cb_from.checked = PyBool(FALSE)
    /\ DataGet(data, "agree") = PyStr(<<"X">>)
    /\ run[FALSE].i > 1 /\ LiveChecked(1) /\ FlatChecked(1)

(***************************************************************************)
(* C9                                                                      *)
(***************************************************************************)
RequiredKeys(kind) ==
    CASE kind = S_label -> {"x", "y"}
      [] kind = S_line  -> {"x1", "y1", "x2", "y2"}
      [] OTHER          -> BoxKeys

Recognized == {S_text, S_textarea, S_checkbox, S_image, S_label, S_line, S_rect}

\* field j has been processed without raising
Completed(r, j) == r.pc # "ready" /\ j < r.i

\* C9 as stated: a field of a recognized kind that lacks a required geometry
\* key makes the render raise: no such field is ever completed.
C9_MissingGeometryRaises ==
    \A m \in BOOLEAN : \A j \in 1..Len(Fields) :
        (KindOf(Fields[j]) \in Recognized /\ Completed(run[m], j)) =>
            RequiredKeys(KindOf(Fields[j])) \subseteq Fields[j].has

\* C9 as the code has it: a text, textarea, checkbox, image or rect field
\* that lacks x, y, w or h makes the render raise at that field, with nothing
\* drawn for it; a label or a line that lacks a coordinate does not raise and
\* is drawn with 0 for the missing coordinate.
C9_BoxRaisesPointDefaults ==
    \A m \in BOOLEAN :
        LET r == run[m]
        IN  /\ \A j \in 1..Len(Fields) :
                   LET f == Fields[j]
                       boxed == KindOf(f) \notin {S_label, S_line}
                   IN  /\ (boxed /\ Completed(r, j)) => (BoxKeys \subseteq f.has)
                       /\ (boxed /\ ~(BoxKeys \subseteq f.has) /\ r.pc # "ready") => (r.i <= j)
                       /\ (boxed /\ ~(BoxKeys \subseteq f.has) /\ r.pc # "ready" /\ r.i = j) =>
                              (\A k \in 1..Len(r.ops) : r.ops[k].fld # j)
            /\ (r.pc = "raised") =>
                   (/\ r.i <= Len(Fields)
                    /\ KindOf(Fields[r.i]) \notin {S_label, S_line}
                    /\ ~(BoxKeys \subseteq Fields[r.i].has))
            /\ (r.pc = "returned") =>
                   (\A j \in 1..Len(Fields) :
                        KindOf(Fields[j]) \notin {S_label, S_line} => (BoxKeys \subseteq Fields[j].has))
            /\ \A k \in 1..Len(r.ops) :
                   LET o == r.ops[k]
                   IN  (o.fld > 0) =>
                       LET g == Fields[o.fld]
                       IN  /\ (o.kind \notin {"label", "line"}) => (BoxKeys \subseteq g.has)
                           /\ (o.kind = "label") =>
                                  (/\ o.x = IF "x" \in g.has THEN g.x ELSE 0
                                   /\ o.y = IF "y" \in g.has THEN g.y ELSE 0)
                           /\ (o.kind = "line") =>
                                  (/\ o.x = IF "x1" \in g.has THEN g.x1 ELSE 0
                                   /\ o.y = IF "y1" \in g.has THEN g.y1 ELSE 0
                                   /\ o.w = IF "x2" \in g.has THEN g.x2 ELSE 0
                                   /\ o.h = IF "y2" \in g.has THEN g.y2 ELSE 0)

\* a label without x was drawn at x = 0, then a rect without h raised
C9_Witness ==
    /\ Len(Fields) = 2
    /\ Fields[1] = Without(T_label, "x") /\ Fields[2] = Without(T_rect, "h")
    /\ run[TRUE].pc = "raised" /\ run[TRUE].i = 2
    /\ \E k \in 1..Len(run[TRUE].ops) :
           run[TRUE].ops[k].fld = 1 /\ run[TRUE].ops[k].x = 0 /\ run[TRUE].ops[k].y = T_label.y

(***************************************************************************)
(* C10                                                                     *)
(***************************************************************************)
\* C10: a call returns the bytes only after every field was processed and
\* the canvas saved exactly once, or it raises; on a structural error at any
\* field nothing is saved and no bytes are returned, whatever was drawn before.
C10_BytesOrRaise ==
    \A m \in BOOLEAN :
        LET r == run[m]
        IN  /\ r.pc \in {"ready", "render", "returned", "raised"}
            /\ r.saves <= 1
            /\ (r.out = "bytes") = (r.pc = "returned")
            /\ r.pc = "returned" =>
                   (r.i = Len(Fields) + 1 /\ r.saves = 1 /\ r.npages = r.shown + 1)
            /\ r.pc = "raised" => (r.out = "none" /\ r.saves = 0 /\ r.npages = 0)
            /\ (r.pc = "render" /\ r.i <= Len(Fields)
                  /\ ~HasBox(Fields[r.i]) /\ KindOf(Fields[r.i]) \notin {S_label, S_line}) =>
                   (r.out = "none" /\ r.saves = 0)

\* the second field raised on page 2, after the first was drawn on page 1
C10_Witness ==
    /\ run[FALSE].pc = "raised" /\ run[FALSE].i = 2 /\ run[FALSE].shown = 1
    /\ \E k \in 1..Len(run[FALSE].ops) : run[FALSE].ops[k].fld = 1 /\ run[FALSE].ops[k].live
    /\ run[FALSE].out = "none"

(***************************************************************************)
(* C11                                                                     *)
(***************************************************************************)
\* an image field with a box whose ValueMap entry is missing, empty or not
\* decodable
FailingImage(f) ==
    /\ KindOf(f) = S_image /\ BoxKeys \subseteq f.has
    /\ LET raw == DataGet(data, ValueKey(f))
       IN  ~Truthy(raw) \/ raw.t # "bytes" \/ ~raw.b

\* C11: a background that cannot be drawn and an image field without bytes
\* or with bytes that cannot be decoded never raise: nothing is drawn for
\* them, the render goes on, the page cursor is where the field list puts it
\* and the fields after them land on their pages.
C11_BestEffortImages ==
    \A m \in BOOLEAN :
        LET r == run[m]
        IN  /\ (r.pc = "raised") => ~FailingImage(Fields[r.i])
            /\ (r.pc = "render") => (r.current_page = HighestPage(r.i - 1))
            /\ \A j \in 1..Len(Fields) :
                   (FailingImage(Fields[j]) /\ r.pc # "ready" /\ r.i >= j) =>
                       /\ \A k \in 1..Len(r.ops) : r.ops[k].fld # j
                       /\ (r.pc = "returned" \/ r.i > j \/ r.pc = "render")
            /\ \A k \in 1..Len(r.ops) :
                   /\ (r.ops[k].fld > 0) => (r.ops[k].page = HighestPage(r.ops[k].fld))
                   /\ (r.ops[k].kind = "background") =>
                          (r.ops[k].ok = (layout.backgrounds[r.ops[k].n + 1] = "ok"))
            /\ (r.pc = "returned") =>
                   \A j \in 1..Len(Fields) :
                       (KindOf(Fields[j]) \notin {S_image, S_label, S_line, S_rect}) =>
                           (\E k \in 1..Len(r.ops) : r.ops[k].fld = j)

\* the background failed, the image bytes did not decode, and the textarea
\* after them was rendered on page 2
C11_Witness ==
    /\ layout.backgrounds = <<"bad">>
    /\ Len(Fields) = 2 /\ Fields[1] = T_image /\ Fields[2] = T_textarea
    /\ DataGet(data, "sig") = Corrupt
    /\ run[FALSE].pc = "returned"
    /\ \A k \in 1..Len(run[FALSE].ops) : run[FALSE].ops[k].fld # 1
    /\ \E k \in 1..Len(run[FALSE].ops) :
           run[FALSE].ops[k].fld = 2 /\ run[FALSE].ops[k].page = 2 /\ run[FALSE].ops[k].live

(***************************************************************************)
(* C12                                                                     *)
(***************************************************************************)
\* the kinds the layout renderer has a branch or a flag for, and the types
\* the auto layout does not draw as a one-line text row
LayoutOwnKinds == {S_label, S_line, S_rect, S_image, S_checkbox, S_textarea, S_multiline}
AutoOwnTypes   == {S_textarea, S_multiline, S_checkbox, <<"b","o","o","l">>,
                   <<"b","o","o","l","e","a","n">>}

\* the type of a schema field as the auto layout reads it
AutoType(fld) == Lower(IF "type" \in fld.has /\ fld.type # <<>> THEN fld.type ELSE S_text)

\* C12 in the layout renderer: field j of any other kind (an unknown type,
\* no type, 'text') with its box is one single-line text artifact at its box
C12_Layout(m) ==
    LET r == run[m]
    IN  /\ (r.pc = "raised") => ~(BoxKeys \subseteq Fields[r.i].has)
        /\ \A j \in 1..Len(Fields) :
               (KindOf(Fields[j]) \notin LayoutOwnKinds /\ Completed(r, j)) =>
                   LET f  == Fields[j]
                       os == SelectSeq(r.ops, LAMBDA o : o.fld = j /\ o.op # "fillbox")
                   IN  /\ Len(os) = 1
                       /\ os[1].kind = "text" /\ os[1].n = 0
                       /\ os[1].op = IF m THEN "drawString" ELSE "acroForm.textfield"
                       /\ os[1].x = IF m THEN f.x + 1 ELSE f.x
                       /\ os[1].y = IF m THEN f.y + f.h - 12 ELSE f.y
                       /\ (~m) => (os[1].w = f.w /\ os[1].h = f.h /\ os[1].name = f.name)

\* C12 in the auto layout: a field of any other type (unknown, none, 'text',
\* 'input', 'string') is a text row: checked against and lowered by line_h,
\* a one-line field 16 high bound to the composite name
C12_Auto(m) ==
    LET a == srun[m]
    IN  (a.pc = "fields" /\ a.fi > 1) =>
            LET sec == Sections[a.si]
                fld == SectionFields(sec)[a.fi - 1]
                o   == a.ops[Len(a.ops)]
            IN  (AutoType(fld) \notin AutoOwnTypes) =>
                    /\ a.last.kind = "text" /\ a.last.check = line_h
                    /\ a.y = a.last.y - line_h
                    /\ o.kind = "text" /\ o.n = 0 /\ o.fld = a.n
                    /\ o.name = sec.key \o "_" \o fld.key
                    /\ o.op = IF m THEN "drawString" ELSE "acroForm.textfield"
                    /\ o.y = a.last.y - (IF m THEN 12 ELSE 16)
                    /\ (~m) => (o.h = 16 /\ o.w = field_w)

\* C12: a field whose kind or type is not a recognized one, or that has no
\* type, goes through the text path and never raises on account of its kind:
\* a single-line text artifact at its box in the layout renderer, a text row
\* of the height and binding of a 'text' field in the auto layout.
C12_UnknownKindIsText ==
    \A m \in BOOLEAN :
        /\ C12_Layout(m)
        /\ C12_Auto(m)
        /\ srun[m].pc = "raised" => "key" \notin Sections[srun[m].si].has

\* a field of type 'Signature' and a field without type were rendered as
\* single-line text fields
C12_Witness ==
    /\ Len(Fields) = 2 /\ Fields[1] = T_other /\ Fields[2] = T_notype
    /\ run[FALSE].pc = "returned" /\ run[TRUE].pc = "returned"
    /\ \E k \in 1..Len(run[FALSE].ops) :
           LET o == run[FALSE].ops[k]
           IN  o.fld = 1 /\ o.op = "acroForm.textfield" /\ o.n = 0 /\ o.page = 2
    /\ \E k \in 1..Len(run[TRUE].ops) :
           LET o == run[TRUE].ops[k]
           IN  o.fld = 2 /\ o.op = "drawString" /\ o.x = 101 /\ o.y = 654

(***************************************************************************)
(* C13                                                                     *)
(***************************************************************************)
\* C13: every run of the auto layout ends with a signature caption and an
\* outline guide box, drawn after all sections and after the place / date
\* row, whatever the schema holds.
C13_SignatureGuideAtEnd ==
    \A m \in BOOLEAN :
        LET a == srun[m]
            n == Len(a.ops)
        IN  (Generic /\ a.pc \in {"rendered", "returned"}) =>
                /\ n >= 2
                /\ a.ops[n - 1].op = "drawString" /\ a.ops[n - 1].kind = "signature"
                /\ a.ops[n].op = "rect" /\ a.ops[n].kind = "signature"

(***************************************************************************)
(* C14                                                                     *)
(***************************************************************************)
\* the bound fields of the place / date row: the interactive text fields, or
\* the value strings of the flatten render
PlaceDateFields(a) ==
    SelectSeq(a.ops, LAMBDA o : o.kind = "place_date" /\ o.op # "fillbox")

\* C14: the place / date row is drawn exactly once, after all sections, with
\* the two bound fields 'stadt' and 'datum' side by side, if misc declares
\* stadt_default or date_placeholder; otherwise no such row is drawn.
C14_PlaceDateRow ==
    \A m \in BOOLEAN :
        LET a  == srun[m]
            pd == PlaceDateFields(a)
        IN  /\ (a.pc \in {"ready", "sections", "fields", "raised"}) => (pd = <<>>)
            /\ (a.pc \in {"rendered", "returned"}) =>
                   IF schema.misc \cap {"stadt_default", "date_placeholder"} # {}
                   THEN /\ Len(pd) = 2
                        /\ pd[1].name = "stadt" /\ pd[2].name = "datum"
                        /\ pd[1].live = ~m /\ pd[2].live = ~m
                        /\ pd[1].y = pd[2].y /\ pd[1].page = pd[2].page
                        /\ pd[1].x < pd[2].x
                        /\ (~m) => (pd[1].x + pd[1].w <= pd[2].x)
                        /\ pd[1].val = AutoValue("stadt", m) /\ pd[2].val = AutoValue("datum", m)
                        /\ \A k \in 1..Len(a.ops) :
                               (a.ops[k].kind = "place_date") =>
                                   /\ a.ops[k].fld = a.n
                                   /\ \A j \in 1..Len(a.ops) :
                                          (a.ops[j].fld # a.n) => (j < k)
                   ELSE pd = <<>>

\* the row was drawn after two sections for a schema that declares only
\* date_placeholder, and the city was bound
C14_Witness ==
    /\ "date_placeholder" \in schema.misc /\ "stadt_default" \notin schema.misc
    /\ Len(Sections) = 2
    /\ srun[FALSE].pc = "returned"
    /\ Len(PlaceDateFields(srun[FALSE])) = 2
    /\ PlaceDateFields(srun[FALSE])[1].val = <<"B","o","n","n">>
    /\ PlaceDateFields(srun[TRUE])[1].val = <<"B","o","n","n">>

(***************************************************************************)
(* C15                                                                     *)
(***************************************************************************)
JaneDoe == <<"J","a","n","e"," ","D","o","e">>

\* the string C15 gives a text / textarea field
C15_Expected(f) ==
    LET key == IF "value_from" \in f.has /\ f.value_from # "" THEN f.value_from ELSE f.name
        v   == IF key \in DOMAIN data THEN data[key]
               ELSE IF "default" \in f.has THEN f.default ELSE PyStr(<<>>)
    IN  IF Truthy(v) THEN StrOf(v) ELSE <<>>

\* the drawing calls of field j that carry its string
TextOps(r, j) == SelectSeq(r.ops, LAMBDA o : o.fld = j /\ o.kind = "text" /\ o.op # "fillbox")

\* C15: a text / textarea field is bound to the ValueMap entry under
\* value_from when set, else under name; without an entry the default is
\* used, with neither the empty string; both modes use the same string and
\* the interactive field is named by name.  The field person_name at
\* (100,700,200,16) with 'Jane Doe' is one interactive field with that value
\* at that box, and flattened the string at (101, 704) and no field.
C15_BoundString ==
    /\ \A k \in 1..Len(run[TRUE].ops) : ~run[TRUE].ops[k].live
    /\ \A j \in 1..Len(Fields) :
           LET f == Fields[j]
           IN  (KindOf(f) \notin {S_label, S_line, S_rect, S_image, S_checkbox}
                    /\ Completed(run[TRUE], j) /\ Completed(run[FALSE], j)) =>
                   LET flat == TextOps(run[TRUE], j)
                       live == TextOps(run[FALSE], j)
                   IN  /\ Len(flat) = 1 /\ Len(live) = 1
                       /\ live[1].live /\ live[1].name = f.name
                       /\ live[1].val = C15_Expected(f)
                       /\ flat[1].val = IF flat[1].op = "paragraph"
                                        THEN ReplaceNewlines(C15_Expected(f))
                                        ELSE C15_Expected(f)
                       /\ (f = T_text /\ DataGet(data, "person_name") = PyStr(JaneDoe)) =>
                              /\ live[1].op = "acroForm.textfield" /\ live[1].val = JaneDoe
                              /\ live[1].x = 100 /\ live[1].y = 700
                              /\ live[1].w = 200 /\ live[1].h = 16
                              /\ flat[1].op = "drawString" /\ flat[1].val = JaneDoe
                              /\ flat[1].x = 101 /\ flat[1].y = 704

\* the field person_name was bound to 'Jane Doe', and a textarea named notes
\* with value_from person_name to the same entry
C15_Witness ==
    /\ Len(Fields) = 2 /\ Fields[1] = T_text /\ Fields[2] = T_textarea
    /\ DataGet(data, "person_name") = PyStr(JaneDoe)
    /\ run[TRUE].pc = "returned" /\ run[FALSE].pc = "returned"
    /\ TextOps(run[FALSE], 1)[1].val = JaneDoe
    /\ TextOps(run[FALSE], 2)[1].val = JaneDoe /\ TextOps(run[FALSE], 2)[1].name = "notes"

(***************************************************************************)
(* C16                                                                     *)
(***************************************************************************)
\* the drawing calls of the row drawn last that are bound to a ValueMap key
BoundOps(a) == SelectSeq(a.ops, LAMBDA o : o.fld = a.n /\ o.name # "")

\* C16: every schema field is rendered under section.key + '_' + field.key,
\* which names the field and is the key read from the ValueMap; without an
\* entry a text or textarea is bound to the empty string and a checkbox is
\* unchecked; a missing entry is never an error.
C16_CompositeName ==
    \A m \in BOOLEAN :
        LET a == srun[m]
        IN  /\ (a.pc = "raised") => ("key" \notin Sections[a.si].has)
            /\ (a.pc = "fields" /\ a.fi > 1) =>
                   LET sec  == Sections[a.si]
                       fld  == SectionFields(sec)[a.fi - 1]
                       name == sec.key \o "_" \o fld.key
                       os   == BoundOps(a)
                       has  == name \in DOMAIN data
                       cb   == AutoType(fld) \in {S_checkbox, <<"b","o","o","l">>,
                                                  <<"b","o","o","l","e","a","n">>}
                   IN  /\ \A k \in 1..Len(os) : os[k].name = name
                       /\ \E k \in 1..Len(os) : os[k].live = ~m
                       /\ cb => \A k \in 1..Len(os) :
                                    /\ os[k].kind = "checkbox"
                                    /\ os[k].live => (os[k].chk = (has /\ Coerced(data[name])))
                                    /\ (os[k].op = "drawString") => (has /\ Coerced(data[name]))
                       /\ (cb /\ m /\ has /\ Coerced(data[name])) =>
                              (\E k \in 1..Len(os) : os[k].op = "drawString")
                       /\ (~cb) =>
                              /\ Len(os) = 1
                              /\ (~has) => (os[1].val = <<>>)
                              /\ (has /\ data[name].t = "str" /\ os[1].op # "paragraph") =>
                                     (os[1].val = data[name].s)
                              /\ (has /\ data[name].t = "str" /\ os[1].op = "paragraph") =>
                                     (os[1].val = ReplaceNewlines(data[name].s))

\* with an empty ValueMap, the fields of section opts were rendered as
\* opts_agree (unchecked), opts_sig and opts_city (empty)
C16_Witness ==
    /\ data = EmptyMap
    /\ Len(Sections) >= 1 /\ Sections[1] = Sec_opts
    /\ srun[FALSE].pc = "fields" /\ srun[FALSE].si = 1 /\ srun[FALSE].fi = 4
    /\ \E k \in 1..Len(srun[FALSE].ops) :
           LET o == srun[FALSE].ops[k]
           IN  o.op = "acroForm.checkbox" /\ o.name = "opts_agree" /\ ~o.chk
    /\ \E k \in 1..Len(srun[FALSE].ops) :
           LET o == srun[FALSE].ops[k]
           IN  o.op = "acroForm.textfield" /\ o.name = "opts_city" /\ o.val = <<>>

(***************************************************************************)
(* C17                                                                     *)
(***************************************************************************)
\* the call is over: it returned or raised
Over(r) == r.pc \in {"returned", "raised"}

\* C17 as stated: each call runs exactly one renderer and then serializes
\* exactly once; the layout renderer if and only if the form has a layout
\* file that can be read and parsed, the auto layout in every other case.
C17_OneRendererOneSave ==
    LET available == form.key /\ form.file \in {"empty", "document"}
    IN  \A m \in BOOLEAN :
            /\ (run[m].pc # "ready") => (available /\ srun[m].pc = "ready")
            /\ (srun[m].pc # "ready") => (~available /\ run[m].pc = "ready")
            /\ Over(run[m]) => (run[m].saves = 1)
            /\ Over(srun[m]) => (srun[m].saves = 1)

\* C17 as the code has it: exactly one renderer runs, the layout renderer if
\* and only if the form key is given and its layout file can be read, parses
\* and is not an empty document, the auto layout in every other case; a call
\* that returns has serialized exactly once, a call whose renderer raised
\* has serialized nothing.
C17_RendererByLayout ==
    LET usable == form.key /\ form.file = "document"
    IN  \A m \in BOOLEAN :
            /\ (run[m].pc # "ready") => (usable /\ srun[m].pc = "ready")
            /\ (srun[m].pc # "ready") => (~usable /\ run[m].pc = "ready")
            /\ run[m].saves = (IF run[m].pc = "returned" THEN 1 ELSE 0)
            /\ srun[m].saves = (IF srun[m].pc = "returned" THEN 1 ELSE 0)
            /\ (run[m].out = "bytes") = (run[m].pc = "returned")
            /\ (srun[m].out = "bytes") = (srun[m].pc = "returned")

\* a form whose layout file parses to an empty document was rendered by the
\* auto layout and serialized once
C17_Witness ==
    /\ form = [entry |-> "build_interactive_pdf", key |-> TRUE, file |-> "empty"]
    /\ srun[TRUE].pc = "returned" /\ srun[TRUE].saves = 1
    /\ Len(Sections) = 2
    /\ run[TRUE].pc = "ready" /\ run[TRUE].ops = <<>>

(***************************************************************************)
(* C19                                                                     *)
(***************************************************************************)
\* lookup(key, fallback) as C19 states it, on the translation table
C19_Lookup(key, fallback) == IF key \in DOMAIN I18N THEN I18N[key] ELSE fallback

\* the captions of the layout renderer: the text of a label, the tooltip of
\* an interactive field
C19_Layout(m) ==
    LET r == run[m]
    IN  \A k \in 1..Len(r.ops) :
            LET o == r.ops[k]
            IN  (o.fld > 0) =>
                    LET f == Fields[o.fld]
                    IN  /\ (o.kind = "label") =>
                               (o.txt = IF "text_i18n" \in f.has /\ f.text_i18n # ""
                                        THEN C19_Lookup(f.text_i18n, f.text)
                                        ELSE f.text)
                        /\ o.live =>
                               (o.txt = C19_Lookup(IF "label_i18n" \in f.has THEN f.label_i18n
                                                   ELSE "", f.name))

\* the captions of the auto layout: the document title, the title of the
\* section begun last, the label of the field drawn last, the place / date row
C19_Auto(m) ==
    LET a == srun[m]
    IN  /\ (a.pc # "ready") => (a.ops[1].txt = C19_Lookup("app.title", "Interactive Form"))
        /\ (a.pc = "fields" /\ a.fi = 1) =>
               LET sec == Sections[a.si]
               IN  a.ops[Len(a.ops)].txt =
                       C19_Lookup(IF "title_i18n" \in sec.has THEN sec.title_i18n
                                  ELSE IF "key" \in sec.has THEN sec.key ELSE "",
                                  IF "key" \in sec.has THEN sec.key ELSE "")
        /\ (a.pc = "fields" /\ a.fi > 1) =>
               LET fld   == SectionFields(Sections[a.si])[a.fi - 1]
                   label == C19_Lookup(IF "label_i18n" \in fld.has THEN fld.label_i18n
                                       ELSE fld.key, fld.key)
               IN  \A k \in 1..Len(a.ops) :
                       LET o == a.ops[k]
                       IN  (o.fld = a.n) =>
                               /\ o.live => (o.txt = label)
                               /\ (o.kind = "caption") => (o.txt \in {label, label \o ":"})
        /\ \A k \in 1..Len(a.ops) :
               LET o == a.ops[k]
               IN  (o.kind = "place_date" /\ o.live) =>
                       (o.txt = IF o.name = "stadt" THEN C19_Lookup("field.ort", "Ort")
                                ELSE C19_Lookup("field.datum", "Datum"))

\* C19: every caption lookup of build_interactive_pdf gives the translation of a key
\* that is in the table and the literal fallback, unchanged, for a key that
\* is not; it never raises and never gives None.
C19_CaptionFallback == \A m \in BOOLEAN : C19_Layout(m) /\ (Generic => C19_Auto(m))

\* the label of field notes, whose key lbl.none is not in the table, is the
\* field key, and the title of section person is its translation
C19_Witness ==
    /\ Len(Sections) >= 1 /\ Sections[1] = Sec_person
    /\ "lbl.none" \notin DOMAIN I18N /\ "sec.person" \in DOMAIN I18N
    /\ srun[FALSE].pc = "fields" /\ srun[FALSE].si = 1 /\ srun[FALSE].fi = 3
    /\ \E k \in 1..Len(srun[FALSE].ops) :
           LET o == srun[FALSE].ops[k]
           IN  o.live /\ o.name = "person_notes" /\ o.txt = "notes"
    /\ \E k \in 1..Len(srun[FALSE].ops) :
           LET o == srun[FALSE].ops[k]
           IN  o.kind = "section" /\ o.txt = "Angaben"

(***************************************************************************)
(* C20                                                                     *)
(***************************************************************************)
\* the size C20 gives the trimmed image of decodable bytes
C20_Trimmed(raw) ==
    LET box == IF raw.alpha THEN <<raw.aw, raw.ah>> ELSE <<raw.ww, raw.wh>>
    IN  IF box[1] = 0 \/ box[2] = 0 THEN <<raw.iw, raw.ih>> ELSE box

\* C20: with trim enabled the image fitted into the box is the source
\* cropped to the bounding box of non-zero alpha when it has an alpha
\* channel, else cropped to the bounding box of its non-white pixels, and
\* the uncropped source when that box is empty.
C20_TrimBySource ==
    \A m \in BOOLEAN : \A k \in 1..Len(run[m].ops) :
        LET o == run[m].ops[k]
        IN  (o.kind = "image" /\ o.fld > 0) =>
                LET f    == Fields[o.fld]
                    raw  == DataGet(data, IF "value_from" \in f.has /\ f.value_from # ""
                                          THEN f.value_from ELSE f.name)
                    mode == Lower(IF "scale_mode" \in f.has /\ f.scale_mode # <<>>
                                  THEN f.scale_mode ELSE S_fit)
                    sz   == C20_Trimmed(raw)
                IN  (("trim" \notin f.has \/ f.trim) /\ mode # S_stretch) =>
                        /\ sz[1] > 0 /\ sz[2] > 0
                        /\ FEq(FMul(o.dw, FInt(sz[2])), FMul(o.dh, FInt(sz[1])))

(***************************************************************************)
(* C18: no render call modifies what it was given.  The ValueMap, the      *)
(* LayoutDocument and the Schema are the same after every step of          *)
(* build_interactive_pdf and after the call of                             *)
(* build_pdf_interactive_obdachlosigkeit: both only read them, with        *)
(* dict.get, and an absent key is not added.  (The translation table is    *)
(* the same table throughout.)                                             *)
(***************************************************************************)
C18_InputsUnchanged ==
    [][data' = data /\ layout' = layout /\ schema' = schema]_vars

\* a call has returned after reading keys its ValueMap does not hold: the
\* builder of the form, the auto layout and an explicit layout
C18_Witness ==
    \/ /\ ~Generic
       /\ \A m \in BOOLEAN : srun[m].pc = "returned"
       /\ \E k \in 1..Len(ObdachKeys) : ObdachKeys[k] \notin DOMAIN data
       /\ \E k \in 1..Len(ObdachKeys) : ObdachKeys[k] \in DOMAIN data
    \/ /\ Generic /\ ~UsesLayout
       /\ \A m \in BOOLEAN : srun[m].pc = "returned" /\ srun[m].trailer = 1
       /\ Len(Sections) > 0
       /\ "datum" \notin DOMAIN data /\ "stadt" \in DOMAIN data
    \/ /\ Generic /\ UsesLayout
       /\ \A m \in BOOLEAN : run[m].pc = "returned"
       /\ \E i \in 1..Len(Fields) :
              FieldKeys(Fields[i]) # <<>> /\ FieldKeys(Fields[i])[1] \notin DOMAIN data

(***************************************************************************)
(* C21                                                                     *)
(***************************************************************************)
\* the builder the priority of build_interactive_pdf_for_form names
C21_Chosen ==
    IF ~(sub.make_interactive \/ sub.print_flat) THEN "build_pdf"
    ELSE IF sub.ib = "function" THEN "build_pdf_interactive_<key>"
    ELSE IF form.file # "missing" THEN "build_interactive_pdf"
    ELSE "build_pdf"

\* the layout file is a document with a field that lacks its box
C21_LayoutRaises ==
    /\ form.file = "document"
    /\ \E i \in 1..Len(Fields) :
           KindOf(Fields[i]) \notin {S_label, S_line} /\ ~HasBox(Fields[i])

\* C21 as stated: the builder is chosen in the priority per-form interactive
\* builder, layout.json with the generic builder, static builder, and every
\* submit that passes validation ends with the bytes of exactly one builder.
C21_AlwaysBytes ==
    /\ (sub.pc \in {"built", "done"}) =>
           (sub.calls = <<C21_Chosen>> /\ sub.pdf_bytes = "bytes")
    /\ sub.pc # "raised"
    /\ (sub.pc = "done") => (sub.download = "bytes")

\* C21, amended: the builder is chosen in that priority; a submit that
\* passes validation ends with the bytes of exactly one builder, or with the
\* exception of the generic builder, which is raised exactly when the layout
\* document has a field that lacks its box; nothing is downloaded then.
C21_BuilderPriority ==
    /\ (sub.pc \in {"built", "done"}) =>
           (sub.calls = <<C21_Chosen>> /\ sub.pdf_bytes = "bytes")
    /\ (sub.pc = "raised") =>
           /\ sub.calls = <<"build_interactive_pdf">>
           /\ C21_Chosen = "build_interactive_pdf"
           /\ C21_LayoutRaises
           /\ sub.pdf_bytes = "unset" /\ sub.download = "unset"
    /\ (sub.pc \in {"built", "done"} /\ sub.calls = <<"build_interactive_pdf">>) =>
           ~C21_LayoutRaises
    /\ (sub.pc = "fallback") => (sub.calls = <<>> /\ sub.pdf_bytes = "none")
    /\ (sub.pc = "rejected") => (sub.calls = <<>> /\ sub.pdf_bytes = "unset")
    /\ (sub.pc = "done") => (sub.download = "bytes")

\* a submit for a form with a builder file that lacks the function and with
\* a layout.json has ended with the bytes of the generic builder
C21_Witness ==
    /\ sub.pc = "done" /\ sub.ib = "no_function" /\ form.file = "document"
    /\ sub.print_flat /\ sub.calls = <<"build_interactive_pdf">>
    /\ sub.download = "bytes"

(***************************************************************************)
(* C22                                                                     *)
(***************************************************************************)
\* the cursor right after a field row lies `drop` under the cursor the row
\* was drawn at
C22_Lowered(kind, drop) ==
    (auto.pc = "fields" /\ auto.last.kind = kind) => (auto.y = auto.last.y - drop)

\* C22 as stated: a text-like or checkbox-like row lowers y by 18 and a
\* textarea-like row by max(16 * rows + 4, 36) = 84, the amount its
\* page-break check tests.
C22_RowHeightIsCheck ==
    /\ C22_Lowered("text", 18) /\ C22_Lowered("checkbox", 18)
    /\ C22_Lowered("textarea", 84)
    /\ (auto.last.kind = "textarea") => (auto.last.check = 84)

\* C22, amended: a text-like or checkbox-like row lowers y by 18, the amount
\* its check tests; a textarea-like row lowers y by
\* max(16 * rows + 4, 36) + 4 = 88, four more than the 84 its check tests.
C22_RowAdvance ==
    /\ C22_Lowered("text", 18) /\ C22_Lowered("checkbox", 18)
    /\ (auto.last.kind \in {"text", "checkbox"}) => (auto.last.check = 18)
    /\ C22_Lowered("textarea", TextareaHeight(5) + 4)
    /\ TextareaHeight(5) + 4 = 88
    /\ (auto.last.kind = "textarea") => (auto.last.check = 84)

\* a textarea row drawn without a page break has lowered the cursor by 88
C22_Witness ==
    /\ auto.pc = "fields" /\ auto.last.kind = "textarea" /\ ~auto.last.broke
    /\ auto.last.check = 84 /\ auto.y = auto.last.y0 - 88

(***************************************************************************)
(* C23                                                                     *)
(***************************************************************************)
\* one step of the auto-layout renderer that emits a page: it is the drawing
\* of a row whose check (cursor minus the height tested, under the bottom
\* margin) failed; one page is emitted, the font is Helvetica 10, and the
\* row is drawn from page_h - top on the new page
C23_BreakStep ==
    (auto'.shown # auto.shown) =>
        /\ auto'.shown = auto.shown + 1
        /\ auto'.n = auto.n + 1
        /\ auto'.last.broke
        /\ auto'.last.y0 = auto.y
        /\ auto.y - auto'.last.check < auto.bottom
        /\ auto'.last.y = auto.page_h - auto.top
        /\ auto'.last.page = auto'.shown + 1
        /\ auto'.font = Helvetica10

\* a row whose check holds is drawn where the cursor is, on the page in
\* progress; a step that draws no row (the gap after a section, the title,
\* the save) emits no page
C23_NoBreakStep ==
    /\ (auto'.n = auto.n + 1 /\ ~(auto.y - auto'.last.check < auto.bottom)) =>
           (auto'.shown = auto.shown /\ auto'.last.y = auto.y)
    /\ (auto'.n = auto.n) => (auto'.shown = auto.shown)

\* C23: in the auto-layout renderer a page break happens only as the result
\* of the check made immediately before a row; each page break emits one
\* page, resets the font to Helvetica 10 and the cursor to
\* page_h - top_margin, and the row is drawn on the new page; the gaps after
\* a section never cause a page break by themselves.
C23_BreakOnlyBeforeRow == [][C23_BreakStep /\ C23_NoBreakStep]_vars

\* after the gap that follows a section the cursor stood under the bottom
\* margin of an A4 page with no page emitted; the title of the next section
\* has started the second page
C23_Witness ==
    /\ auto.page_h = A4_HEIGHT /\ auto.top = 36
    /\ auto.shown = 1 /\ auto.last.broke /\ auto.last.page = 2
    /\ auto.last.kind = "section" /\ auto.n >= 2
    /\ auto.last.y0 < auto.bottom
    /\ auto.last.y = auto.page_h - auto.top

(***************************************************************************)
(* C24                                                                     *)
(***************************************************************************)
\* the font a drawing call of the layout renderer is made with: a label in
\* its own size and weight, a check mark in Helvetica 12, everything else
\* (backgrounds after a page transition included) in Helvetica 10
C24_OpFont(o) ==
    IF o.kind = "label"
    THEN LET f == Fields[o.fld]
         IN  [name |-> IF FGet(f, "bold", FALSE) THEN "Helvetica-Bold" ELSE "Helvetica",
              size |-> FGet(f, "size", 10)]
    ELSE IF o.kind = "checkbox" /\ o.op = "drawString"
    THEN [name |-> "Helvetica", size |-> 12]
    ELSE Helvetica10

\* C24: in the layout-driven renderer the canvas font is Helvetica 10 at the
\* start of the processing of every field, in either mode: it is restored
\* after a label, after a flattened checked checkbox and after every page
\* transition.
C24_FontRestored ==
    \A m \in BOOLEAN :
        /\ (run[m].pc = "render") => (run[m].font = Helvetica10)
        /\ \A k \in 1..Len(run[m].ops) : run[m].ops[k].font = C24_OpFont(run[m].ops[k])

\* the flatten render has drawn a bold label of size 14 and, after a page
\* transition, the mark of a checked checkbox, and is past both fields
C24_Witness ==
    /\ run[TRUE].pc = "render" /\ run[TRUE].i = 3 /\ run[TRUE].current_page = 2
    /\ \E k \in 1..Len(run[TRUE].ops) :
           LET o == run[TRUE].ops[k]
           IN  o.kind = "label" /\ o.page = 1 /\ o.font = [name |-> "Helvetica-Bold", size |-> 14]
    /\ \E k \in 1..Len(run[TRUE].ops) :
           LET o == run[TRUE].ops[k]
           IN  o.kind = "checkbox" /\ o.op = "drawString" /\ o.page = 2

(***************************************************************************)
(* C25                                                                     *)
(***************************************************************************)
\* C25: a layout checkbox without checked_from whose literal `checked` is a
\* string is checked exactly when the Boolean Coercion Rule holds of that
\* string, in the flatten and in the interactive render.
C25_LiteralCoerced ==
    \A j \in 1..Len(Fields) :
        LET f == Fields[j]
        IN  (/\ KindOf(f) = S_checkbox /\ HasBox(f)
             /\ "checked_from" \notin f.has
             /\ "checked" \in f.has /\ f.checked.t = "str"
             /\ Completed(run[FALSE], j) /\ Completed(run[TRUE], j)) =>
                /\ LiveChecked(j) = booly(f.checked)
                /\ FlatChecked(j) = booly(f.checked)

(***************************************************************************)
(* C26                                                                     *)
(***************************************************************************)
\* C26: after a run in which Clear was clicked, get_signature_bytes() is
\* None and get_signature_meta() is {source: None, size_px: None}; hence
\* stored bytes equal to None imply a metadata source equal to None.
C26_ClearResetsBoth ==
    /\ (sess.last = "clear") =>
           (get_signature_bytes(sess) = NoSignature /\ get_signature_meta(sess) = NoMeta)
    /\ (get_signature_bytes(sess) = NoSignature) => (get_signature_meta(sess).source = "None")

(***************************************************************************)
(* C27                                                                     *)
(***************************************************************************)
\* the strings the auto-layout render m has bound to ValueMap key `name` in
\* its text, textarea and place / date fields, line breaks as the flattened
\* textarea writes them
C27_Bound(m, name) ==
    {ReplaceNewlines(srun[m].ops[k].val) :
        k \in {j \in 1..Len(srun[m].ops) :
                  /\ srun[m].ops[j].name = name
                  /\ srun[m].ops[j].kind \in {"text", "textarea", "place_date"}}}

\* C27: for the same Schema and ValueMap the auto-layout renderer binds the
\* same string to every text-like and textarea-like field and to stadt and
\* datum in the flatten and in the interactive render; an entry that is
\* None, False or 0 is bound as the empty string in both.
C27_SameBinding ==
    Generic =>
        \A name \in DOMAIN data \cup {"stadt", "datum"} :
            /\ C27_Bound(TRUE, name) = C27_Bound(FALSE, name)
            /\ (name \in DOMAIN data /\ ~Truthy(data[name])) =>
                   \A m \in BOOLEAN : C27_Bound(m, name) \subseteq {<<>>}

(***************************************************************************)
(* C30                                                                     *)
(***************************************************************************)
\* C30: in the layout-driven renderer a line field does not change the stroke
\* width of what is drawn after it on the same page: every rect border,
\* flattened checkbox square and placeholder box is stroked at the width a
\* page has without any line field, the default width.
C30_LineKeepsStroke ==
    \A m \in BOOLEAN :
        \A k \in 1..Len(run[m].ops) :
            (run[m].ops[k].op = "rect") => (run[m].ops[k].lw = DefaultLineWidth)

(***************************************************************************)
(* C29                                                                     *)
(***************************************************************************)
\* the boxes of a returned Obdachlosigkeit document that stand for the
\* choice `which`, and those of them that are rendered checked
C29_Boxes(m, which) ==
    {k \in 1..Len(srun[m].ops) :
        LET o == srun[m].ops[k]
        IN  IF form.entry = "build_pdf"
            THEN o.kind = "checkbox"
                 /\ o.txt = (IF which = "person_no_relatives" THEN "keine Angehoerige"
                             ELSE "Angehoerige: ")
            ELSE o.kind = "checkbox" /\ o.name = which
                 /\ o.op \in {"rect", "acroForm.checkbox"}}
C29_Checked(m, which) ==
    IF form.entry = "build_pdf"
    THEN \E k \in C29_Boxes(m, which) : srun[m].ops[k].chk
    ELSE IF srun[m].flatten
    THEN \E k \in 1..Len(srun[m].ops) :
             /\ srun[m].ops[k].op = "drawString" /\ srun[m].ops[k].kind = "checkbox"
             /\ srun[m].ops[k].name = which
    ELSE \E k \in C29_Boxes(m, which) : srun[m].ops[k].chk

\* C29: in the Obdachlosigkeit renderers the two relatives checkboxes are
\* complementary: whatever person_has_relatives is in the data, missing
\* included, each of person_no_relatives and person_has_relatives is rendered
\* once and exactly one of them checked, in the flatten and the interactive
\* render of the interactive builder and in the static builder.
C29_Complementary ==
    \A m \in BOOLEAN :
        (~Generic /\ srun[m].pc = "returned" /\ srun[m].out = "bytes") =>
            /\ Cardinality(C29_Boxes(m, "person_no_relatives")) = 1
            /\ Cardinality(C29_Boxes(m, "person_has_relatives")) = 1
            /\ C29_Checked(m, "person_no_relatives") # C29_Checked(m, "person_has_relatives")

\* all three renderers have returned a document with the second box checked
\* for a truthy word, and with the first one checked for a missing key
C29_StaticWitness ==
    /\ form.entry = "build_pdf"
    /\ DataGet(data, "person_has_relatives") = PyStr(<<" ","X"," ">>)
    /\ srun[TRUE].out = "bytes"
    /\ C29_Checked(TRUE, "person_has_relatives")
C29_Witness ==
    /\ form.entry = "build_pdf_interactive_obdachlosigkeit"
    /\ "person_has_relatives" \notin DOMAIN data
    /\ \A m \in BOOLEAN : srun[m].out = "bytes" /\ C29_Checked(m, "person_no_relatives")

(***************************************************************************)
(* C28                                                                     *)
(***************************************************************************)
\* C28: schema_to_interactive_pdf places no field box below the bottom
\* margin, for any number of sections and fields: the lower edge of every
\* box it draws is at or above the bottom margin of the page.
C28_NoBoxBelowBottom ==
    \A k \in 1..Len(flow.ops) :
        (flow.ops[k].op = "rect") => (flow.ops[k].y >= flow_bottom)

====
